---- MODULE Spec2Model ----
(***************************************************************************)
(* The AI orchestrator of packages/ai/src/ai.ts: one call of one of its    *)
(* operations (chat as promise or stream, generateText,                    *)
(* generateTextStream, summarize, embed) against an AI instance, with the  *)
(* primary attempt, the walk of the fallback list and the streaming loops. *)
(* Backends are external: each invocation nondeterministically succeeds,   *)
(* raises, or (when streaming) yields chunks one at a time.                *)
(***************************************************************************)
EXTENDS Integers, Sequences, FiniteSets, TLC

(***************************************************************************)
(* Bounds of the model.                                                    *)
(***************************************************************************)
\* longest fallback list a call or the constructor is given
MaxChain == 2
\* most chunks one backend stream yields before it ends or raises
MaxChunks == 2
MaxFragments == 3
\* most addAdapter calls made before the call of an operation
MaxAdds == 2

(***************************************************************************)
(* Values.                                                                 *)
(***************************************************************************)
\* the adapter names the constructor registered (config.adapters)
RegisteredAdapters == {"openAi", "ollama"}

\* the names addAdapter is called with: a new one and a registered one
AddedAdapters == {"ghost", "openAi"}

\* (adapter, model) pairs callers name; "ghost" is not a registered adapter
Entries ==
  { [adapter |-> "openAi", model |-> "gpt-4o"],
    [adapter |-> "ollama", model |-> "gpt-oss"],
    [adapter |-> "ghost",  model |-> "gpt-4o"] }

NoEntry == [adapter |-> "", model |-> ""]

\* an optional array: undefined, or an array (possibly empty)
Undefined == [defined |-> FALSE, list |-> <<>>]
Array(s) == [defined |-> TRUE, list |-> s]

RECURSIVE SeqsUpTo(_, _)
SeqsUpTo(S, n) ==
  IF n = 0 THEN { <<>> }
  ELSE LET shorter == SeqsUpTo(S, n - 1)
       IN  shorter \cup { Append(s, x) : s \in shorter, x \in S }

Chains == SeqsUpTo(Entries, MaxChain)

\* the fallback lists a constructor is given (config.fallbacks)
DefaultChains ==
  { Undefined,
    Array(<<>>),
    Array(<< [adapter |-> "ollama", model |-> "gpt-oss"] >>),
    Array(<< [adapter |-> "ghost", model |-> "gpt-4o"],
             [adapter |-> "openAi", model |-> "gpt-4o"] >>) }

\* the fallback lists of the streaming calls that request tools
ToolLoopChains ==
  { Undefined, Array(<<>>),
    Array(<< [adapter |-> "ollama", model |-> "gpt-oss"] >>),
    Array(<< [adapter |-> "ghost", model |-> "gpt-4o"],
             [adapter |-> "openAi", model |-> "gpt-4o"] >>) }

\* the tool registry of the constructor (config.tools): key -> Tool
ToolRegistry ==
  [ getGuitars      |-> [name |-> "getGuitars",      execute |-> TRUE],
    recommendGuitar |-> [name |-> "recommendGuitar", execute |-> TRUE],
    describe        |-> [name |-> "describe",        execute |-> FALSE] ]

\* the property names every JavaScript object inherits from Object.prototype:
\* this.adapters[name] and this.tools[name] find them on any registry
InheritedNames == { "toString" }

\* the tools arrays callers pass to chat; "missing" is not registered, and
\* neither is "toString", which the registry object inherits
ToolLists ==
  { Undefined, Array(<<"describe">>), Array(<<"getGuitars">>),
    Array(<<"missing">>), Array(<<"describe", "getGuitars">>),
    Array(<<"toString">>) }

\* the message of the error each backend raises when it fails
RaisedMessage ==
  [openAi |-> "rate limit", ollama |-> "service down", ghost |-> "no route"]

\* error.message of the error chunk each backend emits; it may be empty
ErrorChunkMessage == [openAi |-> "overloaded", ollama |-> "", ghost |-> "busy"]

\* error values: kind, message, the per-attempt list of an aggregate error,
\* and the names an unknown-name error enumerates
Err(kind, message, errs, names) ==
  [kind |-> kind, message |-> message, errors |-> errs, names |-> names]

NoError == Err("none", "", <<>>, {})

PromiseOps == {"chat", "generateText", "summarize", "embed"}

\* an optional number: undefined, or a number
NoNumber == [defined |-> FALSE, value |-> 0]
Number(n) == [defined |-> TRUE, value |-> n]

\* a conversation message: role, content (null, or text), and for an
\* assistant message its tool calls, for a tool message the call it answers
Message(role, content, calls, toolCallId, name) ==
  [role |-> role, content |-> content, toolCalls |-> calls,
   toolCallId |-> toolCallId, name |-> name]

Null == [kind |-> "null", text |-> ""]
Text(t) == [kind |-> "text", text |-> t]

\* the conversation callers pass to chat
InitialMessages == << Message("user", Text("which guitar?"), <<>>, "", "") >>

\* the maxIterations callers pass to chat
MaxIterationsChoices ==
  { NoNumber, Number(-1), Number(0), Number(1), Number(2), Number(3) }

VARIABLES
  derived,       \* history: the addAdapter calls made, in order
  adapters,      \* this.adapters of the instance called: name -> adapter
  fallbacks,     \* this.fallbacks: the constructor's fallback list
  tools,         \* this.tools: the tool registry
  options,       \* the options of the call
  pc,            \* where the call is
  fallbackList,  \* the fallback list the call resolved
  toolObjects,   \* the Tool objects the requested names resolved to
  index,         \* position of the walk in fallbackList (1-based)
  errors,        \* the errors array of the walk
  attempts,      \* history: the attempts made, in order
  outcome,       \* what the caller got: pending, a result, or an error
  adapterToUse,  \* chatStream: the adapter of the primary attempt
  modelToUse,    \* chatStream: the model of the primary attempt
  out,           \* the chunks yielded to the caller so far, in order
  messages,      \* tool loop: the working copy of the conversation
  iteration,     \* tool loop: the round counter
  toolCallsMap,  \* tool loop: the accumulator, in insertion order
  toolCalls,     \* tool loop: the finalized tool calls of the round
  hasToolCalls,  \* tool loop: a done chunk with finish reason tool_calls came
  callIndex,     \* tool loop: position in toolCalls of the call to execute
  executed       \* history: the calls of execute functions, in order

toolVars == << messages, iteration, toolCallsMap, toolCalls, hasToolCalls,
               callIndex, executed >>

vars == << derived, adapters, fallbacks, tools, options, pc, fallbackList, toolObjects,
           index, errors, attempts, outcome, adapterToUse, modelToUse, out,
           toolVars >>

(***************************************************************************)
(* Registries.                                                             *)
(***************************************************************************)
\* getAdapter: the adapter, or the error naming the registered adapters
AdapterNotFound(name) == Err("AdapterNotFound", name, <<>>, DOMAIN adapters)

\* !this.adapters[name] is false for own and for inherited properties
HasAdapter(name) == name \in DOMAIN adapters \cup InheritedNames

\* getTool
ToolNotFound(name) == Err("ToolNotFound", name, <<>>, DOMAIN tools)

\* !this.tools[name] is false for own and for inherited properties
HasTool(name) == name \in DOMAIN tools \cup InheritedNames

\* this.tools[name] of an inherited name: a function of Object.prototype,
\* which has no "function" and no "execute" property
InheritedMember == [name |-> "", execute |-> FALSE]

\* getTool, where the lookup finds something
GetTool(name) == IF name \in DOMAIN tools THEN tools[name] ELSE InheritedMember

\* getToolsByNames: names.map(getTool); throws at the first unknown name
FirstUnknownTool(names) ==
  LET bad == { i \in DOMAIN names : ~HasTool(names[i]) }
  IN  IF bad = {} THEN 0 ELSE CHOOSE i \in bad : \A j \in bad : i <= j

GetToolsByNames(names) == [ i \in DOMAIN names |-> GetTool(names[i]) ]

(***************************************************************************)
(* Fallback resolution.                                                    *)
(***************************************************************************)
\* mutant: the constructor's list is preferred to the list of the call
EffectiveFallbacksDefaultFirst(perCall, default) ==
  IF default.defined /\ Len(default.list) > 0 THEN default ELSE perCall

\* fallbacks && fallbacks.length > 0 ? fallbacks : this.fallbacks
EffectiveFallbacks(perCall, default) ==
  IF perCall.defined /\ Len(perCall.list) > 0 THEN perCall ELSE default

\* mutant: the test for an empty list is left out
NoFallbacksUndefinedOnly(list) == ~list.defined

\* !fallbackList || fallbackList.length === 0
NoFallbacks(list) == ~list.defined \/ Len(list.list) = 0

NoFallbacksError == Err("NoFallbacksSpecified", "", <<>>, {})

(***************************************************************************)
(* The caller's view.                                                      *)
(***************************************************************************)
Pending == [status |-> "pending", value |-> NoEntry, error |-> NoError]
Returned(entry) == [status |-> "returned", value |-> entry, error |-> NoError]
Threw(e) == [status |-> "threw", value |-> NoEntry, error |-> e]

\* one entry of the errors array: { adapter, model, error }
Failure(entry, e) == [adapter |-> entry.adapter, model |-> entry.model, error |-> e]

\* throw new Error(`All adapters failed for ...`) after the walk
AllAdaptersFailed(errs) == Err("AllAdaptersFailed", "", errs, {})

\* the finish reason of the done chunk each backend ends a stream with
FinishReason == [openAi |-> "stop", ollama |-> "tool_calls", ghost |-> "stop"]

\* history record of one attempt: which pair, at which position of the list
\* (0 for the primary), whether the backend was reached, how it ended, the
\* chunks it yielded and the messages of the request (...restOptions)
Attempt(entry, pos, invoked, status, e) ==
  [adapter |-> entry.adapter, model |-> entry.model, pos |-> pos,
   invoked |-> invoked, status |-> status, error |-> e, chunks |-> <<>>,
   sent |-> options.messages]

Primary == [adapter |-> options.adapter, model |-> options.model]

(***************************************************************************)
(* The calls the model makes: any operation, with or without a primary.    *)
(***************************************************************************)
\* the options of a call; without "adapter" in options the call is in
\* fallback-only mode, where the type requires a fallbacks array
OptionsFor(ops) ==
  { o \in [ op : ops, as : {"promise", "stream"}, hasAdapter : BOOLEAN,
            adapter : {e.adapter : e \in Entries} \cup {""},
            model : {e.model : e \in Entries} \cup {""},
            fallbacks : {Undefined} \cup {Array(c) : c \in Chains},
            tools : ToolLists,
            maxIterations : MaxIterationsChoices,
            messages : { InitialMessages } ] :
      /\ (o.as = "stream") => (o.op = "chat")
      /\ IF o.hasAdapter
           THEN [adapter |-> o.adapter, model |-> o.model] \in Entries
           ELSE o.adapter = "" /\ o.model = "" /\ o.fallbacks.defined
      /\ (o.op # "chat") => (o.tools = Undefined)
      /\ (o.as = "stream" /\ o.tools.defined) => (o.fallbacks \in ToolLoopChains)
      /\ (o.maxIterations # NoNumber) =>
           (o.as = "stream" /\ \E i \in DOMAIN o.tools.list :
              o.tools.list[i] \in DOMAIN ToolRegistry
              /\ ToolRegistry[o.tools.list[i]].execute) }

\* chat routes on "as"; generateTextStream is the one other streaming operation
IsPromiseCall ==
  \/ options.op = "chat" /\ options.as = "promise"
  \/ options.op \in {"generateText", "summarize", "embed"}

InitWith(ops) ==
  /\ derived = <<>>
  /\ adapters = [name \in RegisteredAdapters |-> "configured"]
  /\ fallbacks \in DefaultChains
  /\ tools = ToolRegistry
  /\ options \in OptionsFor(ops)
  /\ pc = "start"
  /\ fallbackList = Undefined
  /\ toolObjects = Undefined
  /\ index = 0
  /\ errors = <<>>
  /\ attempts = <<>>
  /\ outcome = Pending
  /\ adapterToUse = ""
  /\ modelToUse = ""
  /\ out = <<>>
  /\ messages = <<>>
  /\ iteration = 0
  /\ toolCallsMap = <<>>
  /\ toolCalls = <<>>
  /\ hasToolCalls = FALSE
  /\ callIndex = 0
  /\ executed = <<>>

(***************************************************************************)
(* addAdapter: a new instance from the adapters of this one and one more.  *)
(***************************************************************************)
\* an AI instance: its three fields
Instance(a, f, t) == [adapters |-> a, fallbacks |-> f, tools |-> t]

\* config.tools || {}
NoTools == [name \in {} |-> [name |-> name, execute |-> FALSE]]

\* { ...this.adapters, [name]: adapter }
Spread(map, name, adapter) ==
  [n \in DOMAIN map \cup {name} |-> IF n = name THEN adapter ELSE map[n]]

\* mutant: the adapter is added to this.adapters itself
WithAdapterInPlace(this, name, adapter) ==
  [receiver |-> Instance(Spread(this.adapters, name, adapter), this.fallbacks,
                         this.tools),
   result |-> Instance(Spread(this.adapters, name, adapter), Undefined, NoTools)]

\* addAdapter: the receiver as the call leaves it, and the instance returned
\* by new AI({ adapters: newAdapters })
WithAdapter(this, name, adapter) ==
  [receiver |-> this,
   result |-> Instance(Spread(this.adapters, name, adapter), Undefined, NoTools)]

\* the program derives the instance it makes a promise-mode chat call on:
\* instance = instance.addAdapter(name, adapter)
AddAdapter ==
  /\ pc = "start"
  /\ options.op = "chat" /\ options.as = "promise"
  /\ Len(derived) < MaxAdds
  /\ \E name \in AddedAdapters :
       LET this == Instance(adapters, fallbacks, tools)
           made == WithAdapter(this, name, "added")
       IN  /\ derived' = Append(derived,
                 [before |-> this, name |-> name, adapter |-> "added",
                  after |-> made.receiver, result |-> made.result])
           /\ adapters' = made.result.adapters
           /\ fallbacks' = made.result.fallbacks
           /\ tools' = made.result.tools
  /\ UNCHANGED toolVars
  /\ UNCHANGED << options, pc, fallbackList, toolObjects, index, errors,
                  attempts, outcome, adapterToUse, modelToUse, out >>

(***************************************************************************)
(* Promise mode: chatPromise, generateText, summarize, embed.              *)
(***************************************************************************)
\* the requested tool names, when the operation takes tools (chat only)
RequestedTools == IF options.op = "chat" THEN options.tools ELSE Undefined

\* tools ? this.getToolsByNames(tools) : undefined, when no name is unknown
ResolvedTools(names) ==
  IF names.defined THEN Array(GetToolsByNames(names.list)) ELSE Undefined

UnknownToolIn(names) == names.defined /\ FirstUnknownTool(names.list) # 0

\* what one invocation of a backend operation can do: resolve, or raise
BackendSettlements == {"ok", "raise"}

\* the error a backend raises
BackendError(adapter) == Err("BackendError", RaisedMessage[adapter], <<>>, {})

\* the entry of an operation up to its first backend call
PromiseCall ==
  /\ pc = "start"
  /\ IsPromiseCall
  /\ LET list == EffectiveFallbacks(options.fallbacks, fallbacks)
     IN  IF ~options.hasAdapter /\ NoFallbacks(list)
           THEN /\ outcome' = Threw(NoFallbacksError)
                /\ pc' = "done"
                /\ UNCHANGED << fallbackList, toolObjects, index >>
           ELSE /\ fallbackList' = list
                /\ IF UnknownToolIn(RequestedTools)
                     THEN /\ outcome' = Threw(ToolNotFound(
                                 RequestedTools.list[FirstUnknownTool(RequestedTools.list)]))
                          /\ pc' = "done"
                          /\ UNCHANGED << toolObjects, index >>
                     ELSE /\ toolObjects' = ResolvedTools(RequestedTools)
                          /\ outcome' = outcome
                          /\ IF options.hasAdapter
                               THEN pc' = "primary" /\ index' = index
                               ELSE pc' = "tryWithFallback" /\ index' = 1
  /\ UNCHANGED toolVars
  /\ UNCHANGED << derived, adapters, fallbacks, tools, options, errors, attempts,
                  adapterToUse, modelToUse, out >>

\* mutant: the walk after a primary failure skips the first entry
PrimaryFailedSkipsFirst(e) ==
  IF NoFallbacks(fallbackList)
    THEN outcome' = Threw(e) /\ pc' = "done" /\ index' = index
    ELSE outcome' = outcome /\ pc' = "tryWithFallback" /\ index' = 2

\* mutant: without fallbacks the primary error is wrapped in the aggregate
PrimaryFailedWrapped(e) ==
  IF NoFallbacks(fallbackList)
    THEN /\ outcome' = Threw(Err("AllAdaptersFailed", "",
                 << [adapter |-> options.adapter, model |-> options.model,
                     error |-> e] >>, {}))
         /\ pc' = "done"
         /\ index' = index
    ELSE outcome' = outcome /\ pc' = "tryWithFallback" /\ index' = 1

\* mutant: the unknown-adapter error of the primary is not caught
PrimaryFailedUnknownRaised(e) ==
  IF NoFallbacks(fallbackList) \/ e.kind = "AdapterNotFound"
    THEN outcome' = Threw(e) /\ pc' = "done" /\ index' = index
    ELSE outcome' = outcome /\ pc' = "tryWithFallback" /\ index' = 1

\* catch (primaryError): rethrow without fallbacks, else walk the list
PrimaryFailed(e) ==
  IF NoFallbacks(fallbackList)
    THEN /\ outcome' = Threw(e)
         /\ pc' = "done"
         /\ index' = index
    ELSE /\ outcome' = outcome
         /\ pc' = "tryWithFallback"
         /\ index' = 1

\* mutant: the primary's result is awaited but not returned
PrimarySucceededNoReturn ==
  IF NoFallbacks(fallbackList)
    THEN outcome' = Returned(Primary) /\ pc' = "done" /\ index' = index
    ELSE outcome' = outcome /\ pc' = "tryWithFallback" /\ index' = 1

\* return await ...: the primary's result is the call's result
PrimarySucceeded ==
  /\ outcome' = Returned(Primary)
  /\ pc' = "done"
  /\ index' = index

\* try { return await this.getAdapter(adapter).<operation>(...) } catch ...
PrimaryAttempt ==
  /\ pc = "primary"
  /\ IF ~HasAdapter(options.adapter)
       THEN /\ attempts' = Append(attempts,
                 Attempt(Primary, 0, FALSE, "failed", AdapterNotFound(options.adapter)))
            /\ PrimaryFailed(AdapterNotFound(options.adapter))
       ELSE \E s \in BackendSettlements :
              IF s = "ok"
                THEN /\ attempts' = Append(attempts,
                          Attempt(Primary, 0, TRUE, "ok", NoError))
                     /\ PrimarySucceeded
                ELSE /\ attempts' = Append(attempts,
                          Attempt(Primary, 0, TRUE, "failed", BackendError(options.adapter)))
                     /\ PrimaryFailed(BackendError(options.adapter))
  /\ UNCHANGED toolVars
  /\ UNCHANGED << derived, adapters, fallbacks, tools, options, fallbackList, toolObjects,
                  errors, adapterToUse, modelToUse, out >>

\* tryWithFallback, catch: errors.push(...), then the next entry, or after
\* the last one the aggregate error
FallbackFailed(fallback, e) ==
  /\ errors' = Append(errors, Failure(fallback, e))
  /\ IF index = Len(fallbackList.list)
       THEN /\ outcome' = Threw(AllAdaptersFailed(errors'))
            /\ pc' = "done"
            /\ index' = index
       ELSE /\ outcome' = outcome
            /\ pc' = pc
            /\ index' = index + 1

\* mutant: the result of an entry is awaited but not returned, so the walk
\* goes on to the next entry
FallbackSucceededNoReturn(fallback) ==
  /\ errors' = errors
  /\ IF index = Len(fallbackList.list)
       THEN outcome' = Returned(fallback) /\ pc' = "done" /\ index' = index
       ELSE outcome' = outcome /\ pc' = pc /\ index' = index + 1

\* return await operation(fallback): the entry's result is the call's result
FallbackSucceeded(fallback) ==
  /\ outcome' = Returned(fallback)
  /\ pc' = "done"
  /\ UNCHANGED << index, errors >>

\* tryWithFallback: one iteration of for (const fallback of fallbacks)
FallbackAttempt ==
  /\ pc = "tryWithFallback"
  /\ index \in DOMAIN fallbackList.list
  /\ LET fallback == fallbackList.list[index]
     IN  IF ~HasAdapter(fallback.adapter)
           THEN /\ attempts' = Append(attempts,
                     Attempt(fallback, index, FALSE, "failed", AdapterNotFound(fallback.adapter)))
                /\ FallbackFailed(fallback, AdapterNotFound(fallback.adapter))
           ELSE \E s \in BackendSettlements :
                  IF s = "ok"
                    THEN /\ attempts' = Append(attempts,
                              Attempt(fallback, index, TRUE, "ok", NoError))
                         /\ FallbackSucceeded(fallback)
                    ELSE /\ attempts' = Append(attempts,
                              Attempt(fallback, index, TRUE, "failed", BackendError(fallback.adapter)))
                         /\ FallbackFailed(fallback, BackendError(fallback.adapter))
  /\ UNCHANGED toolVars
  /\ UNCHANGED << derived, adapters, fallbacks, tools, options, fallbackList, toolObjects,
                  adapterToUse, modelToUse, out >>

InitPromise == InitWith(PromiseOps) /\ IsPromiseCall

NextPromise == AddAdapter \/ PromiseCall \/ PrimaryAttempt \/ FallbackAttempt

SpecPromise == InitPromise /\ [][NextPromise]_vars

(***************************************************************************)
(* Streaming: the chunks of a backend stream.                              *)
(***************************************************************************)
\* a StreamChunk: its type, the model and position it came from, and the
\* fields its type carries
Chunk(type, model, seq, finishReason, message) ==
  [type |-> type, model |-> model, seq |-> seq, finishReason |-> finishReason,
   message |-> message, index |-> 0, id |-> "", name |-> "", arguments |-> <<>>]

\* a tool_call chunk: chunk.index and chunk.toolCall { id, function: { name,
\* arguments } }; the argument text is a sequence of characters
ToolCallChunk(model, seq, fragment) ==
  [type |-> "tool_call", model |-> model, seq |-> seq, finishReason |-> "",
   message |-> "", index |-> fragment.index, id |-> fragment.id,
   name |-> fragment.name, arguments |-> fragment.arguments]

\* a done chunk or an error chunk is the terminal chunk of a backend
\* stream: after it the stream only ends
Terminated(chunks) ==
  chunks # <<>> /\ chunks[Len(chunks)].type \in {"done", "error"}

\* the chunks other than error chunks a backend stream of the operation can
\* yield after `chunks`: chat yields StreamChunks, generateTextStream strings
PlainChunks(entry, chunks) ==
  IF Terminated(chunks) \/ Len(chunks) >= MaxChunks THEN {}
  ELSE IF options.op = "chat"
    THEN { Chunk("content", entry.model, Len(chunks) + 1, "", ""),
           Chunk("done", entry.model, Len(chunks) + 1,
                 FinishReason[entry.adapter], "") }
    ELSE { Chunk("text", entry.model, Len(chunks) + 1, "", "") }

\* a string has no type field, so only chat streams can carry error chunks
ErrorChunks(entry, chunks) ==
  IF options.op = "chat" /\ ~Terminated(chunks)
    THEN { Chunk("error", entry.model, Len(chunks) + 1, "",
                 ErrorChunkMessage[entry.adapter]) }
    ELSE {}

\* what a backend stream can yield after `chunks`
NextChunks(entry, chunks) == PlainChunks(entry, chunks) \cup ErrorChunks(entry, chunks)

\* mutant: the type test misses the error chunks
IsErrorChunkMistyped(chunk) == chunk.type = "failed"

\* chunk.type === "error"
IsErrorChunk(chunk) == chunk.type = "error"

\* new Error(errorChunk.error.message || "Unknown error")
ErrorOfChunk(chunk) ==
  Err("Error", IF chunk.message = "" THEN "Unknown error" ELSE chunk.message, <<>>, {})

\* mutant: any requested tool counts as an executor
HasToolExecutorsAnyTool(objects) == objects.defined /\ objects.list # <<>>

\* toolObjects?.some((t) => t.execute)
HasToolExecutors(objects) ==
  objects.defined /\ \E i \in DOMAIN objects.list : objects.list[i].execute

\* history: the attempt in progress, its chunks so far, and its end
Current == attempts[Len(attempts)]
CurrentEntry == [adapter |-> Current.adapter, model |-> Current.model]
Opened(entry, pos) == Append(attempts, Attempt(entry, pos, TRUE, "open", NoError))
\* the request of the attempt just opened carries these messages
Sent(log, history) == [log EXCEPT ![Len(log)].sent = history]
Produced(chunk) == [attempts EXCEPT ![Len(attempts)].chunks = Append(@, chunk)]
Ended(log, status, e) ==
  [log EXCEPT ![Len(log)].status = status, ![Len(log)].error = e]

IsChatStream == options.op = "chat" /\ options.as = "stream"
IsTextStream == options.op = "generateTextStream"

(***************************************************************************)
(* Streaming with a primary and no tool executors: chatStream, and         *)
(* generateTextStream, whose loops are the same but for the error chunks.  *)
(***************************************************************************)
\* mutant: the primary's failure is not pushed onto errors
StreamPrimaryFailedUnrecorded(primary, list, e) ==
  /\ errors' = errors
  /\ IF NoFallbacks(list)
       THEN outcome' = Threw(e) /\ pc' = "done" /\ index' = index
       ELSE outcome' = outcome /\ pc' = "fallbackNext" /\ index' = 1

\* catch (primaryError): errors.push(...); walk the list, or rethrow
StreamPrimaryFailed(primary, list, e) ==
  /\ errors' = Append(errors, Failure(primary, e))
  /\ IF NoFallbacks(list)
       THEN /\ outcome' = Threw(e)
            /\ pc' = "done"
            /\ index' = index
       ELSE /\ outcome' = outcome
            /\ pc' = "fallbackNext"
            /\ index' = 1

\* chatStream up to its first backend call
ChatStreamCall ==
  /\ pc = "start"
  /\ IsChatStream
  /\ LET list == EffectiveFallbacks(options.fallbacks, fallbacks)
         first == IF options.hasAdapter THEN Primary
                  ELSE IF list.list # <<>> THEN list.list[1] ELSE NoEntry
     IN  IF ~options.hasAdapter /\ NoFallbacks(list)
           THEN /\ outcome' = Threw(NoFallbacksError)
                /\ pc' = "done"
                /\ UNCHANGED << fallbackList, toolObjects, index, attempts,
                                adapterToUse, modelToUse, messages >>
           ELSE /\ fallbackList' = list
                /\ adapterToUse' = first.adapter
                /\ modelToUse' = first.model
                /\ IF UnknownToolIn(options.tools)
                     THEN /\ outcome' = Threw(ToolNotFound(
                                 options.tools.list[FirstUnknownTool(options.tools.list)]))
                          /\ pc' = "done"
                          /\ UNCHANGED << toolObjects, index, attempts, messages >>
                     ELSE /\ toolObjects' = ResolvedTools(options.tools)
                          /\ IF ~options.hasAdapter /\ ~HasToolExecutors(toolObjects')
                               THEN /\ pc' = "tryStreamNext"
                                    /\ index' = 1
                                    /\ UNCHANGED << outcome, attempts, messages >>
                               ELSE IF ~HasAdapter(first.adapter)
                                 THEN /\ outcome' = Threw(AdapterNotFound(first.adapter))
                                      /\ pc' = "done"
                                      /\ UNCHANGED << index, attempts, messages >>
                                 ELSE IF ~HasToolExecutors(toolObjects')
                                   THEN /\ pc' = "streamPrimary"
                                        /\ attempts' = Opened(first, 0)
                                        /\ UNCHANGED << outcome, index, messages >>
                                   ELSE /\ pc' = "toolLoop"
                                        /\ messages' = options.messages
                                        /\ UNCHANGED << outcome, index, attempts >>
  /\ UNCHANGED << iteration, toolCallsMap, toolCalls, hasToolCalls, callIndex,
                  executed >>
  /\ UNCHANGED << derived, adapters, fallbacks, tools, options, errors, out >>

\* generateTextStream up to its first backend call
TextStreamCall ==
  /\ pc = "start"
  /\ IsTextStream
  /\ LET list == EffectiveFallbacks(options.fallbacks, fallbacks)
     IN  IF ~options.hasAdapter
           THEN /\ IF NoFallbacks(list)
                     THEN /\ outcome' = Threw(NoFallbacksError)
                          /\ pc' = "done"
                          /\ UNCHANGED << fallbackList, index >>
                     ELSE /\ fallbackList' = list
                          /\ pc' = "tryStreamNext"
                          /\ index' = 1
                          /\ outcome' = outcome
                /\ UNCHANGED << errors, attempts, adapterToUse, modelToUse >>
           ELSE /\ fallbackList' = list
                /\ adapterToUse' = options.adapter
                /\ modelToUse' = options.model
                /\ IF ~HasAdapter(options.adapter)
                     THEN /\ attempts' = Append(attempts, Attempt(Primary, 0, FALSE,
                                 "failed", AdapterNotFound(options.adapter)))
                          /\ StreamPrimaryFailed(Primary, list, AdapterNotFound(options.adapter))
                     ELSE /\ attempts' = Opened(Primary, 0)
                          /\ pc' = "streamPrimary"
                          /\ UNCHANGED << outcome, index, errors >>
  /\ UNCHANGED toolVars
  /\ UNCHANGED << derived, adapters, fallbacks, tools, options, toolObjects, out >>

\* for await (const chunk of iterator): an error chunk breaks the loop and
\* is thrown as new Error(...), caught as primaryError; any other is yielded
PrimaryChunk ==
  /\ pc = "streamPrimary"
  /\ \E chunk \in NextChunks(CurrentEntry, Current.chunks) :
       IF IsErrorChunk(chunk)
         THEN /\ attempts' = Ended(Produced(chunk), "errorChunk", ErrorOfChunk(chunk))
              /\ StreamPrimaryFailed(CurrentEntry, fallbackList, ErrorOfChunk(chunk))
              /\ out' = out
         ELSE /\ out' = Append(out, chunk)
              /\ attempts' = Produced(chunk)
              /\ UNCHANGED << pc, index, errors, outcome >>
  /\ UNCHANGED toolVars
  /\ UNCHANGED << derived, adapters, fallbacks, tools, options, fallbackList, toolObjects,
                  adapterToUse, modelToUse >>

\* the backend stream raises
PrimaryRaise ==
  /\ pc = "streamPrimary"
  /\ ~Terminated(Current.chunks)
  /\ attempts' = Ended(attempts, "raised", BackendError(Current.adapter))
  /\ StreamPrimaryFailed(CurrentEntry, fallbackList, BackendError(Current.adapter))
  /\ UNCHANGED toolVars
  /\ UNCHANGED << derived, adapters, fallbacks, tools, options, fallbackList, toolObjects,
                  adapterToUse, modelToUse, out >>

\* the backend stream ends: return
PrimaryEnd ==
  /\ pc = "streamPrimary"
  /\ attempts' = Ended(attempts, "ok", NoError)
  /\ outcome' = Returned(CurrentEntry)
  /\ pc' = "done"
  /\ UNCHANGED toolVars
  /\ UNCHANGED << derived, adapters, fallbacks, tools, options, fallbackList, toolObjects,
                  index, errors, adapterToUse, modelToUse, out >>

(***************************************************************************)
(* The walk of the fallback list when streaming: the loop of chatStream    *)
(* and generateTextStream after a primary failure (pc "fallback...") and   *)
(* tryStreamWithFallback in fallback-only mode (pc "tryStream...").        *)
(***************************************************************************)
\* catch: errors.push(...); the next entry, or after the last one the
\* aggregate error
StreamFallbackFailed(fallback, e, next) ==
  /\ errors' = Append(errors, Failure(fallback, e))
  /\ IF index = Len(fallbackList.list)
       THEN /\ outcome' = Threw(AllAdaptersFailed(errors'))
            /\ pc' = "done"
            /\ index' = index
       ELSE /\ outcome' = outcome
            /\ pc' = next
            /\ index' = index + 1

\* one iteration begins: getAdapter(fallback.adapter), then the stream
WalkOpen(next, iter) ==
  /\ pc = next
  /\ index \in DOMAIN fallbackList.list
  /\ LET fallback == fallbackList.list[index]
     IN  IF ~HasAdapter(fallback.adapter)
           THEN /\ attempts' = Append(attempts, Attempt(fallback, index, FALSE,
                       "failed", AdapterNotFound(fallback.adapter)))
                /\ StreamFallbackFailed(fallback, AdapterNotFound(fallback.adapter), next)
           ELSE /\ attempts' = Opened(fallback, index)
                /\ pc' = iter
                /\ UNCHANGED << outcome, index, errors >>
  /\ UNCHANGED toolVars
  /\ UNCHANGED << derived, adapters, fallbacks, tools, options, fallbackList, toolObjects,
                  adapterToUse, modelToUse, out >>

\* for await (const chunk of iterator): an error chunk breaks the loop and
\* is thrown as new Error(...), caught as this entry's failure; any other
\* is yielded
WalkChunk(next, iter) ==
  /\ pc = iter
  /\ \E chunk \in NextChunks(CurrentEntry, Current.chunks) :
       IF IsErrorChunk(chunk)
         THEN /\ attempts' = Ended(Produced(chunk), "errorChunk", ErrorOfChunk(chunk))
              /\ StreamFallbackFailed(CurrentEntry, ErrorOfChunk(chunk), next)
              /\ out' = out
         ELSE /\ out' = Append(out, chunk)
              /\ attempts' = Produced(chunk)
              /\ UNCHANGED << pc, index, errors, outcome >>
  /\ UNCHANGED toolVars
  /\ UNCHANGED << derived, adapters, fallbacks, tools, options, fallbackList, toolObjects,
                  adapterToUse, modelToUse >>

\* the backend stream raises
WalkRaise(next, iter) ==
  /\ pc = iter
  /\ ~Terminated(Current.chunks)
  /\ attempts' = Ended(attempts, "raised", BackendError(Current.adapter))
  /\ StreamFallbackFailed(CurrentEntry, BackendError(Current.adapter), next)
  /\ UNCHANGED toolVars
  /\ UNCHANGED << derived, adapters, fallbacks, tools, options, fallbackList, toolObjects,
                  adapterToUse, modelToUse, out >>

\* mutant: the return after the loop is missing, so the walk goes on to the
\* next entry after a stream that ended well
WalkEndNoReturn(iter) ==
  /\ pc = iter
  /\ attempts' = Ended(attempts, "ok", NoError)
  /\ IF index = Len(fallbackList.list)
       THEN outcome' = Returned(CurrentEntry) /\ pc' = "done" /\ index' = index
       ELSE /\ outcome' = outcome
            /\ pc' = (IF iter = "fallbackIter" THEN "fallbackNext" ELSE "tryStreamNext")
            /\ index' = index + 1
  /\ UNCHANGED toolVars
  /\ UNCHANGED << derived, adapters, fallbacks, tools, options, fallbackList,
                  toolObjects, errors, adapterToUse, modelToUse, out >>

\* the backend stream ends: return
WalkEnd(iter) ==
  /\ pc = iter
  /\ attempts' = Ended(attempts, "ok", NoError)
  /\ outcome' = Returned(CurrentEntry)
  /\ pc' = "done"
  /\ UNCHANGED toolVars
  /\ UNCHANGED << derived, adapters, fallbacks, tools, options, fallbackList, toolObjects,
                  index, errors, adapterToUse, modelToUse, out >>

FallbackOpen == WalkOpen("fallbackNext", "fallbackIter")
FallbackChunk == WalkChunk("fallbackNext", "fallbackIter")
FallbackRaise == WalkRaise("fallbackNext", "fallbackIter")
FallbackEnd == WalkEnd("fallbackIter")

TryStreamOpen == WalkOpen("tryStreamNext", "tryStreamIter")
TryStreamChunk == WalkChunk("tryStreamNext", "tryStreamIter")
TryStreamRaise == WalkRaise("tryStreamNext", "tryStreamIter")
TryStreamEnd == WalkEnd("tryStreamIter")

NextStream ==
  \/ ChatStreamCall \/ TextStreamCall
  \/ PrimaryChunk \/ PrimaryRaise \/ PrimaryEnd
  \/ FallbackOpen \/ FallbackChunk \/ FallbackRaise \/ FallbackEnd
  \/ TryStreamOpen \/ TryStreamChunk \/ TryStreamRaise \/ TryStreamEnd

\* streaming calls in which no requested tool has an execute function
InitStream ==
  /\ InitWith({"chat", "generateTextStream"})
  /\ IsChatStream \/ IsTextStream
  /\ ~(options.tools.defined /\ \E i \in DOMAIN options.tools.list :
          HasTool(options.tools.list[i]) /\ GetTool(options.tools.list[i]).execute
          /\ FirstUnknownTool(options.tools.list) = 0)

SpecStream == InitStream /\ [][NextStream]_vars

(***************************************************************************)
(* The tool-execution loop of chatStream: entered when a requested tool    *)
(* has an execute function; every round streams from the one adapter       *)
(* resolved at the start of the call.                                      *)
(***************************************************************************)
\* restOptions.maxIterations ?? 5
DefaultMaxIterations == 5

\* mutant: the maxIterations of the call is ignored
MaxIterationsOfIgnored(opts) == DefaultMaxIterations

\* mutant: a maxIterations of 0 counts as unset (|| in place of ??)
MaxIterationsOfFalsy(opts) ==
  IF opts.maxIterations.defined /\ opts.maxIterations.value # 0
    THEN opts.maxIterations.value ELSE DefaultMaxIterations

\* restOptions.maxIterations ?? 5
MaxIterationsOf(opts) ==
  IF opts.maxIterations.defined THEN opts.maxIterations.value ELSE DefaultMaxIterations

\* the toolCall of a tool_call chunk: the call's stream index, an id, a
\* function name (possibly empty) and a piece of the argument text
Fragment(idx, id, name, arguments) ==
  [index |-> idx, id |-> id, name |-> name, arguments |-> arguments]

NoFragment == Fragment(0, "", "", <<>>)

\* the fragment of the backend that keeps asking for the one tool
PersistentFragment == Fragment(0, "call_1", "getGuitars", <<"{", "}">>)

\* the chunks of a backend's script: content, a tool-call fragment, done
Content == [type |-> "content", finishReason |-> "", fragment |-> NoFragment]
Done(reason) == [type |-> "done", finishReason |-> reason, fragment |-> NoFragment]
Call(fragment) == [type |-> "tool_call", finishReason |-> "", fragment |-> fragment]

ScriptChunk(model, seq, item) ==
  IF item.type = "tool_call"
    THEN ToolCallChunk(model, seq, item.fragment)
    ELSE Chunk(item.type, model, seq, item.finishReason, "")

\* the streams a backend answers a round of the tool loop with, each of
\* which it may cut short, fail with an error chunk, or raise in:
\*   an answer; one call; one call in two fragments, the second with another
\*   id and name; two calls, the higher index first, the first with text
\*   that does not parse; a declaration-only tool and a tool of the registry
\*   that was not requested; two calls whose fragments interleave, one
\*   fragment without text and one without name; one call whose id comes
\*   in its second fragment only; a tool_calls finish without any call
BackendScripts ==
  { << Content, Done("stop") >>,
    << Call(PersistentFragment), Done("tool_calls") >>,
    << Call(Fragment(0, "call_1", "describe", <<"{">>)),
       Call(Fragment(0, "call_2", "getGuitars", <<"}">>)),
       Done("tool_calls") >>,
    << Call(Fragment(1, "call_b", "getGuitars", <<"{">>)),
       Call(Fragment(0, "call_a", "getGuitars", <<"{", "}">>)),
       Done("tool_calls") >>,
    << Call(Fragment(0, "call_c", "describe", <<"{", "}">>)),
       Call(Fragment(1, "call_d", "recommendGuitar", <<"{", "}">>)),
       Done("tool_calls") >>,
    << Call(Fragment(0, "call_e", "getGuitars", <<"{">>)),
       Call(Fragment(1, "call_f", "describe", <<>>)),
       Call(Fragment(0, "call_g", "", <<"}">>)),
       Done("tool_calls") >>,
    << Call(Fragment(0, "", "getGuitars", <<"{">>)),
       Call(Fragment(0, "call_h", "", <<"}">>)),
       Done("tool_calls") >>,
    << Done("tool_calls") >> }

\* the calls that leave maxIterations unset or set it above 2 run against a
\* backend whose every stream is one tool call and a done chunk with finish
\* reason tool_calls, unless it fails first; the other calls against any
\* backend
PersistentToolCaller ==
  ~options.maxIterations.defined \/ options.maxIterations.value > 2

\* the scripts the backend of the call follows: a stream has at most
\* MaxFragments chunks before its terminal chunk
ScriptsOfCall ==
  IF PersistentToolCaller
    THEN { << Call(PersistentFragment), Done("tool_calls") >> }
    ELSE { s \in BackendScripts : Len(s) <= MaxFragments + 1 }

\* the scripts that begin with the chunks the stream has yielded
ScriptsFrom(entry, chunks) ==
  { s \in ScriptsOfCall :
      /\ Len(s) > Len(chunks)
      /\ \A i \in DOMAIN chunks : ScriptChunk(entry.model, i, s[i]) = chunks[i] }

\* what a backend stream yields in a round of the tool loop
ToolLoopChunks(entry, chunks) ==
  IF Terminated(chunks) THEN {}
  ELSE { Chunk("error", entry.model, Len(chunks) + 1, "",
               ErrorChunkMessage[entry.adapter]) }
       \cup
       { ScriptChunk(entry.model, Len(chunks) + 1, s[Len(chunks) + 1]) :
           s \in ScriptsFrom(entry, chunks) }

\* JSON.parse(text) succeeds
ParsesAsJson(text) == text = <<"{", "}">>

\* the messages of the errors of JSON.parse and of an execute function
ParseErrorMessage == "Unexpected end of JSON input"
ExecuteErrorMessage == "database unavailable"

\* the string an execute function returns
ToolResult == "guitars"

\* JSON.stringify({ error: error.message })
ErrorPayload(message) == [kind |-> "errorJson", text |-> message]

\* position in the accumulator of the entry for a stream index, or 0
PositionOf(map, idx) ==
  LET at == { p \in DOMAIN map : map[p].index = idx }
  IN  IF at = {} THEN 0 ELSE CHOOSE p \in at : TRUE

\* mutant: an id carried by a later fragment replaces the id of the entry
AccumulateToolCallLatestId(map, chunk) ==
  LET p == PositionOf(map, chunk.index)
      existing == IF p # 0 THEN map[p]
                  ELSE [index |-> chunk.index, id |-> chunk.id, name |-> "", args |-> <<>>]
      updated == [existing EXCEPT
                    !.id = IF chunk.id # "" THEN chunk.id ELSE @,
                    !.name = IF chunk.name # "" THEN chunk.name ELSE @,
                    !.args = @ \o chunk.arguments]
  IN  IF p # 0 THEN [map EXCEPT ![p] = updated] ELSE Append(map, updated)

\* mutant: the arguments of a chunk replace what the entry held
AccumulateToolCallOverwrites(map, chunk) ==
  LET p == PositionOf(map, chunk.index)
      existing == IF p # 0 THEN map[p]
                  ELSE [index |-> chunk.index, id |-> chunk.id, name |-> "", args |-> <<>>]
      updated == [existing EXCEPT
                    !.name = IF chunk.name # "" THEN chunk.name ELSE @,
                    !.args = chunk.arguments]
  IN  IF p # 0 THEN [map EXCEPT ![p] = updated] ELSE Append(map, updated)

\* toolCallsMap.get(chunk.index) || { id, name: "", args: "" }; the name is
\* replaced when the chunk carries one, the arguments are appended; set()
AccumulateToolCall(map, chunk) ==
  LET p == PositionOf(map, chunk.index)
      existing == IF p # 0 THEN map[p]
                  ELSE [index |-> chunk.index, id |-> chunk.id, name |-> "", args |-> <<>>]
      updated == [existing EXCEPT
                    !.name = IF chunk.name # "" THEN chunk.name ELSE @,
                    !.args = @ \o chunk.arguments]
  IN  IF p # 0 THEN [map EXCEPT ![p] = updated] ELSE Append(map, updated)

\* toolCallsMap.forEach((call) => toolCalls.push({ id, type, function }))
FinalizedToolCalls(map) ==
  [ p \in DOMAIN map |->
      [id |-> map[p].id, name |-> map[p].name, arguments |-> map[p].args] ]

\* mutant: the predicate of find does not compare the names, so the first
\* tool is found
FindToolFirst(objects, name) == IF objects.list # <<>> THEN 1 ELSE 0

\* restOptions.tools?.find((t) => t.function.name === name): its position, or 0
FindTool(objects, name) ==
  LET at == { i \in DOMAIN objects.list : objects.list[i].name = name }
  IN  IF at = {} THEN 0 ELSE CHOOSE i \in at : \A j \in at : i <= j

ToolEntry == [adapter |-> adapterToUse, model |-> modelToUse]

\* while (iteration < maxIterations): the next round's stream, or the end
RoundStart ==
  /\ pc = "toolLoop"
  /\ IF iteration < MaxIterationsOf(options)
       THEN /\ iteration' = iteration + 1
            /\ toolCalls' = <<>>
            /\ toolCallsMap' = <<>>
            /\ hasToolCalls' = FALSE
            /\ attempts' = Sent(Opened(ToolEntry, IF options.hasAdapter THEN 0 ELSE 1),
                                 messages)
            /\ pc' = "toolStream"
            /\ outcome' = outcome
       ELSE /\ outcome' = Returned(ToolEntry)
            /\ pc' = "done"
            /\ UNCHANGED << iteration, toolCalls, toolCallsMap, hasToolCalls, attempts >>
  /\ UNCHANGED << derived, adapters, fallbacks, tools, options, fallbackList, toolObjects,
                  index, errors, adapterToUse, modelToUse, out, messages,
                  callIndex, executed >>

\* for await (const chunk of ...): yield chunk, accumulate a tool call,
\* finalize on a done chunk with finish reason tool_calls
ToolChunk ==
  /\ pc = "toolStream"
  /\ \E chunk \in ToolLoopChunks(CurrentEntry, Current.chunks) :
       /\ out' = Append(out, chunk)
       /\ attempts' = Produced(chunk)
       /\ toolCallsMap' = IF chunk.type = "tool_call"
                            THEN AccumulateToolCall(toolCallsMap, chunk)
                            ELSE toolCallsMap
       /\ IF chunk.type = "done" /\ chunk.finishReason = "tool_calls"
            THEN /\ hasToolCalls' = TRUE
                 /\ toolCalls' = toolCalls \o FinalizedToolCalls(toolCallsMap')
            ELSE UNCHANGED << hasToolCalls, toolCalls >>
  /\ UNCHANGED << derived, adapters, fallbacks, tools, options, pc, fallbackList, toolObjects,
                  index, errors, outcome, adapterToUse, modelToUse, messages,
                  iteration, callIndex, executed >>

\* mutant: the error the backend raises is caught and the call ends normally
ToolRaiseSwallowed ==
  /\ pc = "toolStream"
  /\ ~Terminated(Current.chunks)
  /\ attempts' = Ended(attempts, "raised", BackendError(Current.adapter))
  /\ outcome' = Returned(CurrentEntry)
  /\ pc' = "done"
  /\ UNCHANGED toolVars
  /\ UNCHANGED << derived, adapters, fallbacks, tools, options, fallbackList, toolObjects,
                  index, errors, adapterToUse, modelToUse, out >>

\* the backend stream raises: nothing catches it
ToolRaise ==
  /\ pc = "toolStream"
  /\ ~Terminated(Current.chunks)
  /\ attempts' = Ended(attempts, "raised", BackendError(Current.adapter))
  /\ outcome' = Threw(BackendError(Current.adapter))
  /\ pc' = "done"
  /\ UNCHANGED toolVars
  /\ UNCHANGED << derived, adapters, fallbacks, tools, options, fallbackList, toolObjects,
                  index, errors, adapterToUse, modelToUse, out >>

\* mutant: only the flag is tested, not the list
NoToolCallsFlagOnly(has, calls) == ~has

\* mutant: the last round the maximum allows ends without executing its calls
NoToolCallsAtMaximum(has, calls) ==
  ~has \/ Len(calls) = 0 \/ iteration >= MaxIterationsOf(options)

\* !hasToolCalls || toolCalls.length === 0
NoToolCalls(has, calls) == ~has \/ Len(calls) = 0

\* the backend stream ends: break without tool calls, else the assistant
\* message and the execution of the tool calls
ToolStreamEnd ==
  /\ pc = "toolStream"
  /\ attempts' = Ended(attempts, "ok", NoError)
  /\ IF NoToolCalls(hasToolCalls, toolCalls)
       THEN /\ outcome' = Returned(CurrentEntry)
            /\ pc' = "done"
            /\ UNCHANGED << messages, callIndex >>
       ELSE /\ messages' = Append(messages,
                 Message("assistant", Null, toolCalls, "", ""))
            /\ callIndex' = 1
            /\ pc' = "toolExecute"
            /\ outcome' = outcome
  /\ UNCHANGED << derived, adapters, fallbacks, tools, options, fallbackList, toolObjects,
                  index, errors, adapterToUse, modelToUse, out, iteration,
                  toolCallsMap, toolCalls, hasToolCalls, executed >>

\* the synthetic chunk yielded after a tool ran
ToolExecutedChunk(name) ==
  [type |-> "content", model |-> modelToUse, seq |-> 0, finishReason |-> "",
   message |-> "", index |-> 0, id |-> "", name |-> name, arguments |-> <<>>]

\* mutant: the result of the tool is not added to the conversation
ToolResultMessageDropped(history, toolCall, result) == history

\* mutant: the tool message does not carry the id of the call
ToolResultMessageWithoutId(history, toolCall, result) ==
  Append(history, Message("tool", Text(result), <<>>, "unknown", toolCall.name))

\* mutant: the result of the tool takes the place of the last message
ToolResultMessageReplaces(history, toolCall, result) ==
  [history EXCEPT ![Len(history)] =
     Message("tool", result, <<>>, toolCall.id, toolCall.name)]

\* messages.push({ role: "tool", content: result, toolCallId, name })
ToolResultMessage(history, toolCall, result) ==
  Append(history, Message("tool", Text(result), <<>>, toolCall.id, toolCall.name))

\* mutant: the catch block swallows the error without a message
ToolErrorMessageDropped(history, toolCall, message) == history

\* catch (error): messages.push({ role: "tool", content:
\* JSON.stringify({ error: error.message }), toolCallId, name })
ToolErrorMessage(history, toolCall, message) ==
  Append(history,
         Message("tool", ErrorPayload(message), <<>>, toolCall.id, toolCall.name))

\* for (const toolCall of toolCalls): one call; a tool without execute, or
\* no tool of that name, is skipped
ExecuteToolCall ==
  /\ pc = "toolExecute"
  /\ callIndex \in DOMAIN toolCalls
  /\ LET toolCall == toolCalls[callIndex]
         found == FindTool(toolObjects, toolCall.name)
     IN  IF found # 0 /\ toolObjects.list[found].execute
           THEN IF ~ParsesAsJson(toolCall.arguments)
                  THEN /\ messages' = ToolErrorMessage(messages, toolCall,
                                                       ParseErrorMessage)
                       /\ UNCHANGED << out, executed >>
                  ELSE \E ok \in BOOLEAN :
                         /\ executed' = Append(executed,
                              [name |-> toolCall.name, id |-> toolCall.id, ok |-> ok])
                         /\ IF ok
                              THEN /\ messages' = ToolResultMessage(messages, toolCall,
                                                                    ToolResult)
                                   /\ out' = Append(out, ToolExecutedChunk(toolCall.name))
                              ELSE /\ messages' = ToolErrorMessage(messages, toolCall,
                                                                   ExecuteErrorMessage)
                                   /\ out' = out
           ELSE UNCHANGED << messages, out, executed >>
  /\ IF callIndex = Len(toolCalls)
       THEN pc' = "toolLoop" /\ callIndex' = callIndex
       ELSE pc' = pc /\ callIndex' = callIndex + 1
  /\ UNCHANGED << derived, adapters, fallbacks, tools, options, fallbackList, toolObjects,
                  index, errors, attempts, outcome, adapterToUse, modelToUse,
                  iteration, toolCallsMap, toolCalls, hasToolCalls >>

ToolLoopStep ==
  RoundStart \/ ToolChunk \/ ToolRaise \/ ToolStreamEnd \/ ExecuteToolCall

NextTools == ChatStreamCall \/ ToolLoopStep

\* streaming chat calls in which a requested tool has an execute function
InitTools ==
  /\ InitWith({"chat"})
  /\ IsChatStream
  /\ options.tools.defined
  /\ FirstUnknownTool(options.tools.list) = 0
  /\ \E i \in DOMAIN options.tools.list : GetTool(options.tools.list[i]).execute

SpecTools == InitTools /\ [][NextTools]_vars

(***************************************************************************)
(* Every call of every operation.                                          *)
(***************************************************************************)
Init == InitPromise \/ InitStream \/ InitTools

Next == NextPromise \/ NextStream \/ ToolLoopStep

Spec == Init /\ [][Next]_vars

(***************************************************************************)
(* Properties.                                                             *)
(***************************************************************************)
\* the effective fallback chain as the specification defines it: the
\* per-call chain when it has an entry, else the default chain (if any)
ClaimedChain ==
  IF options.fallbacks.defined /\ options.fallbacks.list # <<>>
    THEN options.fallbacks.list
    ELSE IF fallbacks.defined THEN fallbacks.list ELSE <<>>

FailedStatuses == {"failed", "raised", "errorChunk"}

\* attempt i was made on the pair at position k of the chain
IsChainAttempt(i, k) ==
  /\ attempts[i].pos = k
  /\ k \in DOMAIN ClaimedChain
  /\ attempts[i].adapter = ClaimedChain[k].adapter
  /\ attempts[i].model = ClaimedChain[k].model

\* the backend is invoked exactly in the attempts whose adapter is registered
InvokedIffRegistered ==
  \A i \in DOMAIN attempts : attempts[i].invoked <=> attempts[i].adapter \in DOMAIN adapters

\* C1: in promise mode with a primary, the primary is the first attempt, and
\* when it succeeds its result is returned and no chain entry is attempted.
C1_PrimaryFirstThenReturn ==
  (IsPromiseCall /\ options.hasAdapter /\ attempts # <<>>) =>
    /\ attempts[1].pos = 0
    /\ attempts[1].adapter = options.adapter
    /\ attempts[1].model = options.model
    /\ (attempts[1].status = "ok") =>
         /\ Len(attempts) = 1
         /\ pc = "done"
         /\ outcome = [status |-> "returned",
                       value |-> [adapter |-> options.adapter, model |-> options.model],
                       error |-> NoError]

C1_Witness ==
  /\ IsPromiseCall /\ options.hasAdapter
  /\ ClaimedChain # <<>>
  /\ attempts # <<>> /\ attempts[1].status = "ok"
  /\ pc = "done"

\* C2: in promise mode, after a failed primary the chain is walked in order
\* from its first entry; when entry k is the first to succeed, k+1 attempts
\* were made (the primary and entries 1..k), the backend being invoked in
\* each attempt on a registered adapter, entry k's result is returned and no
\* later entry is attempted.
C2_FirstSuccessAtK ==
  (IsPromiseCall /\ options.hasAdapter /\ Len(attempts) >= 2) =>
    LET n == Len(attempts)
    IN  /\ attempts[1].status = "failed"
        /\ \A i \in 2..n : IsChainAttempt(i, i - 1)
        /\ \A i \in 2..(n - 1) : attempts[i].status = "failed"
        /\ InvokedIffRegistered
        /\ (attempts[n].status = "ok") =>
             /\ pc = "done"
             /\ outcome.status = "returned"
             /\ outcome.value = ClaimedChain[n - 1]

C2_Witness ==
  /\ IsPromiseCall /\ options.hasAdapter
  /\ Len(attempts) = 3
  /\ \A i \in 1..3 : attempts[i].invoked
  /\ attempts[3].status = "ok"
  /\ pc = "done"

\* C3 (as claimed): in promise mode, when the primary and every chain entry
\* fail, the aggregate error lists 1 + (chain length) failures, the
\* primary's first, one per attempt in attempt order.
C3_DiagnosticsIncludePrimary ==
  (IsPromiseCall /\ options.hasAdapter /\ outcome.error.kind = "AllAdaptersFailed") =>
    /\ Len(outcome.error.errors) = 1 + Len(ClaimedChain)
    /\ Len(outcome.error.errors) = Len(attempts)
    /\ \A i \in DOMAIN attempts :
         outcome.error.errors[i] =
           [adapter |-> attempts[i].adapter, model |-> attempts[i].model,
            error |-> attempts[i].error]

\* C4: in promise mode, when the primary fails and the effective chain is
\* empty or absent, the caller gets the very error of the primary, and no
\* other attempt is made.
C4_PrimaryErrorUnwrapped ==
  (/\ IsPromiseCall /\ options.hasAdapter
   /\ ClaimedChain = <<>>
   /\ attempts # <<>> /\ attempts[1].status = "failed") =>
    /\ Len(attempts) = 1
    /\ pc = "done"
    /\ outcome = [status |-> "threw", value |-> NoEntry, error |-> attempts[1].error]

C4_Witness ==
  /\ IsPromiseCall /\ options.hasAdapter
  /\ ClaimedChain = <<>>
  /\ attempts # <<>> /\ attempts[1].status = "failed" /\ attempts[1].invoked
  /\ outcome.error.kind = "BackendError"

\* C5: in fallback-only promise mode, attempt i is made on entry i of the
\* effective chain, each entry at most once, the walk stopping at the first
\* success, whose result is returned.
C5_FallbackOnlyWalk ==
  (IsPromiseCall /\ ~options.hasAdapter) =>
    LET n == Len(attempts)
    IN  /\ n <= Len(ClaimedChain)
        /\ \A i \in 1..n : IsChainAttempt(i, i)
        /\ \A i \in 1..(n - 1) : attempts[i].status = "failed"
        /\ (n > 0 /\ attempts[n].status = "ok") =>
             /\ pc = "done"
             /\ outcome.status = "returned"
             /\ outcome.value = ClaimedChain[n]

\* chain [A, B], A failing and B succeeding
C5_Witness ==
  /\ IsPromiseCall /\ ~options.hasAdapter
  /\ Len(ClaimedChain) = 2
  /\ Len(attempts) = 2
  /\ attempts[1].invoked /\ attempts[1].status = "failed"
  /\ attempts[2].invoked /\ attempts[2].status = "ok"
  /\ outcome.value = ClaimedChain[2]

\* C6: in fallback-only mode of any operation, when the per-call chain is
\* empty and the default chain is empty or absent, the call fails with the
\* no-fallbacks error, no attempt is made and nothing is streamed.
C6_NoFallbacksConfigured ==
  (/\ ~options.hasAdapter
   /\ options.fallbacks.list = <<>>
   /\ (~fallbacks.defined \/ fallbacks.list = <<>>)
   /\ pc # "start") =>
    /\ pc = "done"
    /\ outcome.status = "threw"
    /\ outcome.error.kind = "NoFallbacksSpecified"
    /\ attempts = <<>>
    /\ out = <<>>
    /\ executed = <<>>

C6_Witness ==
  /\ ~options.hasAdapter
  /\ options.fallbacks.list = <<>>
  /\ fallbacks.defined /\ fallbacks.list = <<>>
  /\ options.op = "chat" /\ options.as = "stream"
  /\ outcome.error.kind = "NoFallbacksSpecified"

\* the entries of a chain
EntriesOf(chain) == { chain[i] : i \in DOMAIN chain }

\* C7: in every operation, the chain the call resolves is the per-call
\* chain when it has an entry and the default chain otherwise; every
\* attempt other than the primary is made on the entry of that chain at the
\* attempt's position, so with a per-call entry no entry that only the
\* default chain has is attempted.
C7_EffectiveChain ==
  /\ (pc # "start" /\ outcome.error.kind # "NoFallbacksSpecified") =>
       (IF fallbackList.defined THEN fallbackList.list ELSE <<>>) = ClaimedChain
  /\ \A i \in DOMAIN attempts :
       (attempts[i].pos > 0) =>
         /\ IsChainAttempt(i, attempts[i].pos)
         /\ (options.fallbacks.defined /\ options.fallbacks.list # <<>>) =>
              [adapter |-> attempts[i].adapter, model |-> attempts[i].model]
                \in EntriesOf(options.fallbacks.list)

\* both chains have entries, the default chain one the per-call chain lacks,
\* and the walk has gone through the whole per-call chain
C7_Witness ==
  /\ options.fallbacks.defined /\ options.fallbacks.list # <<>>
  /\ fallbacks.defined
  /\ EntriesOf(fallbacks.list) \ EntriesOf(options.fallbacks.list) # {}
  /\ \E i \in DOMAIN attempts : attempts[i].pos = Len(options.fallbacks.list)
  /\ pc = "done"

\* some tool requested for the call carries an executable function
RequestsExecutable ==
  /\ options.tools.defined
  /\ \E i \in DOMAIN options.tools.list :
       /\ options.tools.list[i] \in DOMAIN ToolRegistry
       /\ ToolRegistry[options.tools.list[i]].execute

\* the chunks of a backend stream up to but excluding its first error chunk
BeforeError(chunks) ==
  LET errs == { i \in DOMAIN chunks : chunks[i].type = "error" }
  IN  IF errs = {} THEN chunks
      ELSE SubSeq(chunks, 1, (CHOOSE i \in errs : \A j \in errs : i <= j) - 1)

\* the concatenation, in attempt order, of what each attempt may forward
RECURSIVE ForwardedBy(_)
ForwardedBy(log) ==
  IF log = <<>> THEN <<>>
  ELSE ForwardedBy(SubSeq(log, 1, Len(log) - 1)) \o BeforeError(log[Len(log)].chunks)

\* position in the chain of the first attempt: the primary counts as 0
FirstPos == IF options.hasAdapter THEN 0 ELSE 1

\* C8: in streaming chat without executable tools, the caller has observed
\* exactly the chunks of the attempts made so far, in attempt order and in
\* the order each backend produced them, each attempt cut before its first
\* error chunk; no error chunk is delivered; and an attempt is made only
\* after the one before it failed, on the next entry of the chain.
C8_ForwardedChunks ==
  (IsChatStream /\ ~RequestsExecutable) =>
    /\ out = ForwardedBy(attempts)
    /\ \A i \in DOMAIN out : out[i].type # "error"
    /\ \A i \in DOMAIN attempts :
         /\ attempts[i].pos = FirstPos + i - 1
         /\ (attempts[i].pos > 0) => IsChainAttempt(i, attempts[i].pos)
         /\ (i < Len(attempts)) => attempts[i].status \in FailedStatuses

\* two content chunks, then an error chunk, then a fallback that streams
C8_Witness ==
  /\ IsChatStream /\ ~RequestsExecutable
  /\ Len(attempts) >= 2
  /\ Len(attempts[1].chunks) = 3
  /\ attempts[1].chunks[1].type = "content"
  /\ attempts[1].chunks[2].type = "content"
  /\ attempts[1].chunks[3].type = "error"
  /\ attempts[2].chunks # <<>>
  /\ Len(out) = 3

\* C9: in streaming chat without executable tools and with a non-empty
\* effective chain, the aggregate error is raised exactly when the last
\* entry of the chain has failed after all attempts before it failed, and
\* it lists one failure per attempt made, in attempt order, the primary's
\* first when there is one.
C9_StreamAllFailed ==
  (IsChatStream /\ ~RequestsExecutable /\ ClaimedChain # <<>>) =>
    /\ (outcome.error.kind = "AllAdaptersFailed") =>
         /\ Len(attempts) = (1 - FirstPos) + Len(ClaimedChain)
         /\ \A i \in DOMAIN attempts : attempts[i].status \in FailedStatuses
         /\ Len(outcome.error.errors) = Len(attempts)
         /\ \A i \in DOMAIN attempts :
              outcome.error.errors[i] =
                [adapter |-> attempts[i].adapter, model |-> attempts[i].model,
                 error |-> attempts[i].error]
         /\ options.hasAdapter =>
              /\ outcome.error.errors[1].adapter = options.adapter
              /\ outcome.error.errors[1].model = options.model
    /\ (/\ attempts # <<>>
        /\ attempts[Len(attempts)].status \in FailedStatuses
        /\ attempts[Len(attempts)].pos = Len(ClaimedChain)) =>
         /\ pc = "done"
         /\ outcome.status = "threw"
         /\ outcome.error.kind = "AllAdaptersFailed"

\* a primary and two entries fail, one by raising and one by an error chunk
C9_Witness ==
  /\ IsChatStream /\ ~RequestsExecutable /\ options.hasAdapter
  /\ Len(ClaimedChain) = 2
  /\ outcome.error.kind = "AllAdaptersFailed"
  /\ Len(outcome.error.errors) = 3
  /\ \E i \in DOMAIN attempts : attempts[i].status = "raised"
  /\ \E i \in DOMAIN attempts : attempts[i].status = "errorChunk"

\* C10 (as claimed): in every streaming chat call an error chunk of a backend
\* stream acts as a raised error: it is not delivered to the caller, the
\* attempt counts as failed at once, and a call that ends with such an
\* attempt ends in failure.
C10_ErrorChunkAsRaised ==
  IsChatStream =>
    /\ \A i \in DOMAIN out : out[i].type # "error"
    /\ \A i \in DOMAIN attempts :
         (\E j \in DOMAIN attempts[i].chunks : attempts[i].chunks[j].type = "error") =>
           attempts[i].status \in FailedStatuses
    /\ (/\ pc = "done"
        /\ attempts # <<>>
        /\ \E j \in DOMAIN attempts[Len(attempts)].chunks :
             attempts[Len(attempts)].chunks[j].type = "error") =>
         outcome.status = "threw"

\* C11 (as claimed): in every operation and mode, with a non-empty
\* effective chain the failure of one backend attempt is absorbed: the call
\* goes on to the next entry of the chain, and the caller never gets the
\* error of a single attempt; a raised backend error reaches the caller
\* only when there is no chain.
C11_FailureAbsorbedWithChain ==
  /\ (ClaimedChain # <<>>) =>
       \A i \in DOMAIN attempts :
         (attempts[i].invoked /\ attempts[i].status \in FailedStatuses) =>
           /\ (outcome.status = "threw") => outcome.error # attempts[i].error
           /\ (i = Len(attempts) /\ attempts[i].pos < Len(ClaimedChain)) =>
                pc # "done"
  /\ (outcome.error.kind = "BackendError") => ClaimedChain = <<>>

\* C12 (as claimed): a streaming call either ends its chunk sequence
\* normally or fails with the all-adapters-failed error or the no-fallbacks
\* error; no other error, and no raw backend error, reaches the consumer.
C12_StreamFailureKinds ==
  (IsChatStream \/ IsTextStream) =>
    /\ (outcome.status = "threw") =>
         outcome.error.kind \in {"AllAdaptersFailed", "NoFallbacksSpecified"}
    /\ (pc = "done") => outcome.status \in {"returned", "threw"}

\* the maximum number of rounds as the specification defines it
ClaimedMaximum ==
  IF options.maxIterations.defined THEN options.maxIterations.value ELSE 5

\* a backend stream that carries a tool call and ends with a terminal chunk
\* of finish reason tool_calls
ToolTriggering(chunks) ==
  /\ chunks # <<>>
  /\ chunks[Len(chunks)].type = "done"
  /\ chunks[Len(chunks)].finishReason = "tool_calls"
  /\ \E j \in DOMAIN chunks : chunks[j].type = "tool_call"

\* every backend stream of the call so far was consumed to its end and was
\* tool-triggering
AlwaysToolTriggering ==
  /\ attempts # <<>>
  /\ \A i \in DOMAIN attempts :
       attempts[i].status = "ok" /\ ToolTriggering(attempts[i].chunks)

\* C13: in the tool loop the backend is streamed from at most M times, M
\* being the configured maximum (5 when unset); against a backend whose
\* every stream ends tool-triggering the loop ends only after exactly M
\* streams, and then normally, without an error.
C13_RoundsBounded ==
  (IsChatStream /\ RequestsExecutable) =>
    /\ Len(attempts) <= ClaimedMaximum \/ attempts = <<>>
    /\ iteration = Len(attempts)
    /\ AlwaysToolTriggering =>
         /\ outcome.status # "threw"
         /\ (pc = "done") =>
              Len(attempts) = ClaimedMaximum /\ outcome.status = "returned"

\* three rounds with maxIterations 3
C13_Witness ==
  /\ IsChatStream /\ RequestsExecutable
  /\ options.maxIterations = [defined |-> TRUE, value |-> 3]
  /\ AlwaysToolTriggering
  /\ Len(attempts) = 3
  /\ pc = "done" /\ outcome.status = "returned"

\* the tool requested for the call under a function name, if it has an
\* executable function
RequestedExecutable(name) ==
  /\ options.tools.defined
  /\ \E i \in DOMAIN options.tools.list :
       /\ options.tools.list[i] \in DOMAIN ToolRegistry
       /\ ToolRegistry[options.tools.list[i]].name = name
       /\ ToolRegistry[options.tools.list[i]].execute

\* a tool-triggering backend stream that carries one tool call, for a
\* requested tool with an executable function: its fragments share one
\* stream index and the last name they carry is that tool's
OneExecutableCall(chunks) ==
  LET calls == { j \in DOMAIN chunks : chunks[j].type = "tool_call" }
      named == { j \in calls : chunks[j].name # "" }
  IN  /\ ToolTriggering(chunks)
      /\ \A j, k \in calls : chunks[j].index = chunks[k].index
      /\ named # {}
      /\ RequestedExecutable(chunks[CHOOSE j \in named : \A k \in named : k <= j].name)

\* C14: in the tool loop, against a backend whose every stream asks for one
\* call of an executable tool, each round appends exactly two messages, an
\* assistant message carrying the tool call and then a tool message
\* answering it: after round r the history is the initial messages
\* followed by r such pairs.
C14_TwoMessagesPerRound ==
  (/\ IsChatStream /\ RequestsExecutable
   /\ pc \in {"toolLoop", "done"}
   /\ attempts # <<>>
   /\ \A i \in DOMAIN attempts :
        attempts[i].status = "ok" /\ OneExecutableCall(attempts[i].chunks)) =>
    LET r == Len(attempts)
        n == Len(options.messages)
    IN  /\ r <= ClaimedMaximum
        /\ Len(messages) = n + 2 * r
        /\ SubSeq(messages, 1, n) = options.messages
        /\ \A k \in 1..r :
             /\ messages[n + 2 * k - 1].role = "assistant"
             /\ Len(messages[n + 2 * k - 1].toolCalls) = 1
             /\ messages[n + 2 * k].role = "tool"
             /\ messages[n + 2 * k].toolCallId = messages[n + 2 * k - 1].toolCalls[1].id

\* three rounds, the tool failing in one of them
C14_Witness ==
  /\ IsChatStream /\ RequestsExecutable
  /\ pc = "done"
  /\ Len(attempts) = 3
  /\ \A i \in DOMAIN attempts :
       attempts[i].status = "ok" /\ OneExecutableCall(attempts[i].chunks)
  /\ Len(messages) = Len(options.messages) + 6
  /\ \E k \in DOMAIN executed : ~executed[k].ok
  /\ \E k \in DOMAIN executed : executed[k].ok

\* the stream of the round that just ended was not tool-triggering: it had
\* no terminal chunk of finish reason tool_calls, or carried no tool call
RoundEndedUntriggered ==
  /\ pc = "toolStream"
  /\ pc' # "toolStream"
  /\ attempts'[Len(attempts')].status = "ok"
  /\ ~ToolTriggering(attempts'[Len(attempts')].chunks)

\* C15: in the tool loop, when the stream of a round ends without a
\* terminal chunk of finish reason tool_calls, or with one but no tool call
\* to finalize, the loop ends with that round: no message is appended, no
\* tool is executed, the caller's stream ends normally, and nothing more
\* happens in the call (no further backend stream).
C15_UntriggeredRoundEndsLoop ==
  [][ /\ pc # "done"
      /\ RoundEndedUntriggered =>
           /\ messages' = messages
           /\ executed' = executed
           /\ out' = out
           /\ Len(attempts') = Len(attempts)
           /\ pc' = "done"
           /\ outcome'.status = "returned" ]_vars

\* a second round whose stream is only a terminal chunk of finish reason
\* tool_calls, after a first round that executed a tool
C15_Witness ==
  /\ IsChatStream /\ RequestsExecutable
  /\ pc = "done" /\ outcome.status = "returned"
  /\ Len(attempts) = 2
  /\ Len(attempts[2].chunks) = 1
  /\ attempts[2].chunks[1].finishReason = "tool_calls"
  /\ options.maxIterations.value = 2
  /\ Len(messages) = Len(options.messages) + 2

\* the finalized tool call about to be processed
CallAtHand == toolCalls[callIndex]

\* the step processes a call of a requested executable tool and fails: the
\* argument text does not parse, or the executable function raises
ToolCallFails ==
  /\ pc = "toolExecute"
  /\ callIndex \in DOMAIN toolCalls
  /\ RequestedExecutable(CallAtHand.name)
  /\ \/ ~ParsesAsJson(CallAtHand.arguments)
     \/ /\ Len(executed') = Len(executed) + 1
        /\ ~executed'[Len(executed')].ok

\* the message of the failure of the step
FailureMessageOfStep ==
  IF ParsesAsJson(CallAtHand.arguments)
    THEN "database unavailable"
    ELSE "Unexpected end of JSON input"

\* C16: in the tool loop, when the argument text of a finalized call does
\* not parse or its executable function raises, exactly one tool message is
\* appended for the call, whose body is the error payload with the
\* failure's message and which carries the call's identifier and function
\* name; the call's failure does not fail the stream: the next call of the
\* round is processed next, or after the last call the loop goes on to the
\* next round, which starts when the maximum allows.
C16_ToolFailureCaptured ==
  [][ /\ ToolCallFails =>
           /\ Len(messages') = Len(messages) + 1
           /\ SubSeq(messages', 1, Len(messages)) = messages
           /\ messages'[Len(messages')] =
                [role |-> "tool",
                 content |-> [kind |-> "errorJson", text |-> FailureMessageOfStep],
                 toolCalls |-> <<>>,
                 toolCallId |-> CallAtHand.id,
                 name |-> CallAtHand.name]
           /\ outcome' = outcome /\ outcome.status = "pending"
           /\ toolCalls' = toolCalls
           /\ IF callIndex < Len(toolCalls)
                THEN pc' = "toolExecute" /\ callIndex' = callIndex + 1
                ELSE pc' = "toolLoop"
      /\ (pc = "toolLoop" /\ iteration < ClaimedMaximum) =>
           /\ pc' = "toolStream"
           /\ Len(attempts') = Len(attempts) + 1 ]_vars

\* a round of two calls, the first with text that does not parse and the
\* second executed, followed by a round in which the tool raises
C16_Witness ==
  /\ IsChatStream /\ RequestsExecutable
  /\ Len(attempts) = 2
  /\ Len(messages) >= Len(options.messages) + 5
  /\ LET n == Len(options.messages)
     IN  /\ Len(messages[n + 1].toolCalls) = 2
         /\ messages[n + 2].content = [kind |-> "errorJson",
                                       text |-> "Unexpected end of JSON input"]
         /\ messages[n + 2].toolCallId = "call_b"
         /\ messages[n + 3].content.kind = "text"
         /\ messages[n + 3].toolCallId = "call_a"
         /\ messages[n + 5].content = [kind |-> "errorJson",
                                       text |-> "database unavailable"]

\* a chunk is the synthetic content chunk that names a tool
IsSyntheticFor(chunk, name) ==
  chunk.type = "content" /\ chunk.seq = 0 /\ chunk.name = name

\* C17 (as claimed): in the tool loop, the step that processes a finalized
\* call of a requested executable tool appends the tool message for the
\* call and then delivers exactly one synthetic content chunk naming the
\* tool, whether the message carries a result or an error payload; the
\* step that processes any other call delivers nothing.
C17_SyntheticChunkPerExecutableCall ==
  [][ (pc = "toolExecute" /\ callIndex \in DOMAIN toolCalls) =>
        IF RequestedExecutable(CallAtHand.name)
          THEN /\ Len(messages') = Len(messages) + 1
               /\ messages'[Len(messages')].role = "tool"
               /\ Len(out') = Len(out) + 1
               /\ SubSeq(out', 1, Len(out)) = out
               /\ IsSyntheticFor(out'[Len(out')], CallAtHand.name)
          ELSE out' = out ]_vars

\* C18: in the tool loop, the step that processes a finalized call appends
\* a tool message for it exactly when a tool requested for this call has
\* the call's function name and an executable function, and invokes that
\* function exactly when moreover the argument text parses; a call naming a
\* declaration-only tool or a tool that was not requested (registered or
\* not) is skipped, while the assistant message of the round lists it.
C18_ExecutedIffRequestedExecutable ==
  [][ (pc = "toolExecute" /\ callIndex \in DOMAIN toolCalls) =>
        /\ IF RequestedExecutable(CallAtHand.name)
             THEN /\ Len(messages') = Len(messages) + 1
                  /\ messages'[Len(messages')].role = "tool"
                  /\ messages'[Len(messages')].toolCallId = CallAtHand.id
                  /\ messages'[Len(messages')].name = CallAtHand.name
             ELSE messages' = messages /\ executed' = executed
        /\ IF RequestedExecutable(CallAtHand.name) /\ ParsesAsJson(CallAtHand.arguments)
             THEN /\ Len(executed') = Len(executed) + 1
                  /\ executed'[Len(executed')].name = CallAtHand.name
                  /\ executed'[Len(executed')].id = CallAtHand.id
             ELSE executed' = executed
        /\ \E k \in DOMAIN messages :
             /\ messages[k].role = "assistant"
             /\ messages[k].toolCalls = toolCalls
             /\ \A j \in (k + 1)..Len(messages) : messages[j].role = "tool" ]_vars

\* a round whose two calls name a declaration-only tool and a tool of the
\* registry that was not requested: only the assistant message is appended
C18_Witness ==
  /\ IsChatStream
  /\ options.tools.list = <<"describe", "getGuitars">>
  /\ pc = "toolLoop"
  /\ Len(toolCalls) = 2
  /\ toolCalls[1].name = "describe"
  /\ toolCalls[2].name = "recommendGuitar"
  /\ "recommendGuitar" \in DOMAIN tools
  /\ Len(messages) = Len(options.messages) + 1
  /\ messages[Len(messages)].toolCalls = toolCalls
  /\ executed = <<>>

\* C19: addAdapter returns an instance whose adapter names are those of the
\* receiver and the new name, the new adapter standing under that name
\* (also when the receiver had one of that name) and every other adapter
\* being the receiver's; the receiver's adapters, fallback list and tool
\* registry are after the call what they were before, for every call of a
\* sequence of addAdapter calls.
C19_AddAdapterExtendsCopy ==
  \A k \in DOMAIN derived :
    LET call == derived[k]
    IN  /\ DOMAIN call.result.adapters = DOMAIN call.before.adapters \cup {call.name}
        /\ call.result.adapters[call.name] = call.adapter
        /\ \A n \in DOMAIN call.before.adapters :
             (n # call.name) => call.result.adapters[n] = call.before.adapters[n]
        /\ call.after = call.before
        /\ (k = Len(derived)) =>
             DOMAIN adapters = DOMAIN call.before.adapters \cup {call.name}

\* a new name is added, then a registered name is overridden, and the call
\* made on the last instance reaches the backend under the new name
C19_Witness ==
  /\ Len(derived) = 2
  /\ derived[1].name = "ghost" /\ derived[2].name = "openAi"
  /\ derived[1].before.adapters["openAi"] = "configured"
  /\ adapters["openAi"] = "added"
  /\ \E i \in DOMAIN attempts : attempts[i].adapter = "ghost" /\ attempts[i].invoked

\* C20: the instance addAdapter returns has no fallback list and an empty
\* tool registry, whatever the receiver had: a call on it whose primary
\* fails without a per-call chain gets the primary's error, a fallback-only
\* call with an empty per-call chain gets the no-fallbacks error, and a
\* call that requests a tool gets the unknown-tool error for the first name.
C20_AddAdapterDropsConfig ==
  /\ \A k \in DOMAIN derived :
       /\ ~derived[k].result.fallbacks.defined
       /\ DOMAIN derived[k].result.tools = {}
  /\ (derived # <<>> /\ pc # "start") =>
       /\ (/\ options.hasAdapter
           /\ options.fallbacks.list = <<>>
           /\ attempts # <<>> /\ attempts[1].status = "failed") =>
            /\ Len(attempts) = 1
            /\ outcome = [status |-> "threw", value |-> NoEntry,
                          error |-> attempts[1].error]
       /\ (~options.hasAdapter /\ options.fallbacks.list = <<>>) =>
            /\ outcome.error.kind = "NoFallbacksSpecified"
            /\ attempts = <<>>
       /\ (/\ options.tools.defined /\ options.tools.list # <<>>
           /\ outcome.error.kind # "NoFallbacksSpecified") =>
            /\ outcome.status = "threw"
            /\ outcome.error = [kind |-> "ToolNotFound",
                                message |-> options.tools.list[1],
                                errors |-> <<>>, names |-> {}]
            /\ attempts = <<>>

\* C21: within one call at most one backend attempt is in progress: every
\* attempt but the last has ended; outside the tool loop attempt i+1 is
\* made only after attempt i failed, and the chunks the caller has observed
\* are those of the attempts one attempt after the other, never
\* interleaved.
C21_OneAttemptAtATime ==
  /\ \A i \in DOMAIN attempts : (i < Len(attempts)) => attempts[i].status # "open"
  /\ ~(IsChatStream /\ RequestsExecutable) =>
       /\ \A i \in DOMAIN attempts :
            (i < Len(attempts)) => attempts[i].status \in FailedStatuses
       /\ out = ForwardedBy(attempts)

\* a third attempt streams after two attempts that failed after a chunk
C21_Witness ==
  /\ IsChatStream /\ ~RequestsExecutable
  /\ Len(attempts) = 3
  /\ attempts[1].chunks # <<>> /\ attempts[1].status = "raised"
  /\ attempts[2].chunks # <<>> /\ attempts[2].status = "errorChunk"
  /\ attempts[3].status = "open" /\ attempts[3].chunks # <<>>
  /\ Len(out) >= 3

\* the positions of the requested tool names the tool registry lacks
UnknownRequested ==
  { i \in DOMAIN options.tools.list : options.tools.list[i] \notin DOMAIN tools }

\* C22: in chat, promise or stream, with a primary or a non-empty effective
\* chain, the requested tool names are resolved in the order given before
\* any backend is invoked: with an unknown name the call fails with the
\* unknown-tool error for the first such name and no attempt is made,
\* whatever the fallbacks; otherwise the tools handed on are the registry's
\* entries for the names, in the order of the names.
C22_ToolsResolvedFirst ==
  (/\ options.op = "chat"
   /\ pc # "start"
   /\ options.tools.defined
   /\ options.hasAdapter \/ ClaimedChain # <<>>) =>
    IF UnknownRequested # {}
      THEN LET first == CHOOSE i \in UnknownRequested :
                          \A j \in UnknownRequested : i <= j
           IN  /\ pc = "done"
               /\ outcome = [status |-> "threw", value |-> NoEntry,
                             error |-> [kind |-> "ToolNotFound",
                                        message |-> options.tools.list[first],
                                        errors |-> <<>>,
                                        names |-> DOMAIN tools]]
               /\ attempts = <<>>
               /\ out = <<>>
      ELSE /\ toolObjects.defined
           /\ Len(toolObjects.list) = Len(options.tools.list)
           /\ \A i \in DOMAIN options.tools.list :
                toolObjects.list[i] = GetTool(options.tools.list[i])

\* the unknown-name error of a registry: the name asked for and the names
\* the registry holds
UnknownNameError(kind, name, registered) ==
  [kind |-> kind, message |-> name, errors |-> <<>>, names |-> registered]

\* C23: resolving an adapter name or a tool name the instance has not
\* registered fails with the unknown-name error, which names exactly the
\* names registered in that instance; resolving a registered name gives the
\* registered entry: an attempt reaches a backend exactly when its adapter
\* name is registered, and the tools handed on are the registry's entries.
C23_RegistryLookup ==
  /\ \A i \in DOMAIN attempts :
       IF attempts[i].adapter \in DOMAIN adapters
         THEN attempts[i].invoked /\ attempts[i].error.kind # "AdapterNotFound"
         ELSE /\ ~attempts[i].invoked
              /\ attempts[i].status = "failed"
              /\ attempts[i].error =
                   UnknownNameError("AdapterNotFound", attempts[i].adapter,
                                    DOMAIN adapters)
  /\ (outcome.error.kind = "AdapterNotFound") =>
       /\ outcome.error.message \notin DOMAIN adapters
       /\ outcome.error.names = DOMAIN adapters
  /\ \A k \in DOMAIN errors :
       (errors[k].error.kind = "AdapterNotFound") =>
         /\ errors[k].adapter \notin DOMAIN adapters
         /\ errors[k].error.names = DOMAIN adapters
  /\ (outcome.error.kind = "ToolNotFound") =>
       /\ outcome.error.message \notin DOMAIN tools
       /\ outcome.error.names = DOMAIN tools
  /\ toolObjects.defined =>
       \A i \in DOMAIN toolObjects.list :
         /\ options.tools.list[i] \in DOMAIN tools
         /\ toolObjects.list[i] = GetTool(options.tools.list[i])

\* the pairs a chat call is given, in order: the primary, then the chain
GivenPairs ==
  (IF options.hasAdapter THEN << Primary >> ELSE <<>>) \o ClaimedChain

\* the backends that succeeded in this call
Succeeding ==
  { attempts[i].adapter : i \in { j \in DOMAIN attempts : attempts[j].status = "ok" } }

\* each backend of this call either succeeded or raised, the same every time
DeterministicBackends ==
  \A i \in DOMAIN attempts :
    attempts[i].invoked =>
      /\ attempts[i].status \in {"ok", "failed", "raised"}
      /\ (attempts[i].adapter \in Succeeding) => (attempts[i].status = "ok")

\* what promise mode does with pairs when the backends in good succeed and
\* the others raise: it goes through the pairs in order up to the first one
\* that is registered and succeeds; the result is the pairs it invokes
RECURSIVE PromiseInvokes(_, _)
PromiseInvokes(pairs, good) ==
  IF pairs = <<>> THEN <<>>
  ELSE LET e == Head(pairs)
       IN  IF e.adapter \notin DOMAIN adapters
             THEN PromiseInvokes(Tail(pairs), good)
             ELSE IF e.adapter \in good THEN << e >>
                  ELSE << e >> \o PromiseInvokes(Tail(pairs), good)

PromiseFails(pairs, good) ==
  \A i \in DOMAIN pairs :
    pairs[i].adapter \notin DOMAIN adapters \/ pairs[i].adapter \notin good

\* the pairs whose backend the call invoked, in order
RECURSIVE InvokedPairs(_)
InvokedPairs(log) ==
  IF log = <<>> THEN <<>>
  ELSE LET last == log[Len(log)]
           rest == InvokedPairs(SubSeq(log, 1, Len(log) - 1))
       IN  IF last.invoked
             THEN Append(rest, [adapter |-> last.adapter, model |-> last.model])
             ELSE rest

\* C24: a chat call without tools whose backends each deterministically
\* succeed or raise invokes, in streaming mode as in promise mode, the
\* sequence of pairs promise mode invokes for the same registry, default chain
\* and options, and fails exactly when promise mode fails.
C24_StreamAsPromise ==
  (/\ options.op = "chat"
   /\ ~options.tools.defined
   /\ pc = "done"
   /\ DeterministicBackends) =>
    /\ InvokedPairs(attempts) = PromiseInvokes(GivenPairs, Succeeding)
    /\ (outcome.status = "threw") <=> PromiseFails(GivenPairs, Succeeding)

\* the same statement of promise-mode calls alone
C24_PromiseAsPromise ==
  (options.as = "promise") => C24_StreamAsPromise

\* the attempts made on the pair the call names as its primary
OnPrimaryPair ==
  { i \in DOMAIN attempts :
      attempts[i].adapter = options.adapter /\ attempts[i].model = options.model }

\* C25 (as claimed): in a call with a primary, at most one attempt is made
\* on the primary's pair, whatever the chain, even a chain that holds the
\* same pair.
C25_PrimaryPairAtMostOnce ==
  options.hasAdapter => Cardinality(OnPrimaryPair) <= 1

\* C25 (amended): in a call with a primary, outside the tool loop, the
\* primary is attempted exactly once, as the first attempt; after its failure
\* the chain is walked from its start, each position at most once and none
\* skipped, so that a chain entry equal to the primary's pair is attempted
\* again at its position.
C25_PrimaryOnceThenWholeChain ==
  (options.hasAdapter /\ ~(IsChatStream /\ RequestsExecutable)) =>
    /\ Cardinality({ i \in DOMAIN attempts : attempts[i].pos = 0 }) <= 1
    /\ attempts # <<>> =>
         /\ attempts[1].pos = 0
         /\ attempts[1].adapter = options.adapter
         /\ attempts[1].model = options.model
    /\ Len(attempts) >= 2 => attempts[1].status \in FailedStatuses
    /\ \A i \in 2..Len(attempts) : IsChainAttempt(i, i - 1)
    /\ Cardinality(OnPrimaryPair) <=
         1 + Cardinality({ k \in DOMAIN ClaimedChain : ClaimedChain[k] = Primary })

\* the chain holds the primary's pair, and after the primary's failure the
\* walk reaches that entry: the pair is attempted a second time
C25_Witness ==
  /\ options.hasAdapter
  /\ \E k \in DOMAIN ClaimedChain : ClaimedChain[k] = Primary
  /\ Cardinality(OnPrimaryPair) = 2
  /\ \E i \in OnPrimaryPair : i >= 2 /\ attempts[i].invoked

\* C26: execute functions are called only in streaming chat calls that
\* request at least one executable tool; promise-mode calls never call one,
\* and a streaming chat call that requests no executable tool makes no
\* attempt after a successful one and appends no message, also when the
\* stream ends with finish reason tool_calls.
C26_ExecuteOnlyInToolLoop ==
  /\ executed # <<>> => (IsChatStream /\ RequestsExecutable)
  /\ IsPromiseCall => executed = <<>>
  /\ (IsChatStream /\ ~RequestsExecutable) =>
       /\ executed = <<>>
       /\ messages = <<>>
       /\ iteration = 0
       /\ \A i \in DOMAIN attempts : attempts[i].status = "ok" => i = Len(attempts)
       /\ (attempts # <<>> /\ attempts[Len(attempts)].status = "ok") =>
            (pc = "done" /\ outcome.status = "returned")

\* a stream that requests a declaration-only tool ends with finish reason
\* tool_calls and the call is over
C26_Witness ==
  /\ IsChatStream /\ options.tools = Array(<<"describe">>)
  /\ pc = "done"
  /\ attempts # <<>>
  /\ LET last == attempts[Len(attempts)]
     IN  /\ last.status = "ok"
         /\ last.chunks # <<>>
         /\ last.chunks[Len(last.chunks)].type = "done"
         /\ last.chunks[Len(last.chunks)].finishReason = "tool_calls"

\* the entries of an accumulator in ascending order of their stream index
RECURSIVE InIndexOrder(_)
InIndexOrder(map) ==
  IF map = <<>> THEN <<>>
  ELSE LET p == CHOOSE q \in DOMAIN map :
                  \A r \in DOMAIN map : map[q].index <= map[r].index
           rest == [ i \in 1..(Len(map) - 1) |->
                       IF i < p THEN map[i] ELSE map[i + 1] ]
       IN  << map[p] >> \o InIndexOrder(rest)

\* C27 (as claimed): in the tool loop, once a done chunk with finish reason
\* tool_calls has come, the finalized tool calls (and so the tool calls of
\* the assistant message) are the accumulated calls in ascending order of
\* their stream index, in whatever order the fragments arrived.
C27_FinalizedInIndexOrder ==
  hasToolCalls => toolCalls = FinalizedToolCalls(InIndexOrder(toolCallsMap))

\* the argument fragments of the tool_call chunks of one stream index,
\* concatenated in arrival order
RECURSIVE ArgumentsOf(_, _)
ArgumentsOf(chunks, idx) ==
  IF chunks = <<>> THEN <<>>
  ELSE LET c == Head(chunks)
       IN  (IF c.type = "tool_call" /\ c.index = idx THEN c.arguments ELSE <<>>)
             \o ArgumentsOf(Tail(chunks), idx)

\* the stream indices of the tool_call chunks
IndicesOf(chunks) ==
  { chunks[i].index : i \in { j \in DOMAIN chunks : chunks[j].type = "tool_call" } }

\* C28: in a round of the tool loop the accumulator has one entry per stream
\* index seen, and the argument text of the entry, and of the tool call
\* finalized from it, is the concatenation in arrival order of the argument
\* fragments of all the tool_call chunks of that index, empty ones included,
\* however the fragments of other indices interleave and whatever id each
\* fragment carries.
C28_ArgumentsAccumulatedByIndex ==
  (pc \in {"toolStream", "toolExecute"}) =>
    /\ { toolCallsMap[p].index : p \in DOMAIN toolCallsMap } = IndicesOf(Current.chunks)
    /\ \A p, q \in DOMAIN toolCallsMap :
         toolCallsMap[p].index = toolCallsMap[q].index => p = q
    /\ \A p \in DOMAIN toolCallsMap :
         toolCallsMap[p].args = ArgumentsOf(Current.chunks, toolCallsMap[p].index)
    /\ hasToolCalls =>
         /\ Len(toolCalls) = Len(toolCallsMap)
         /\ \A p \in DOMAIN toolCalls :
              toolCalls[p].arguments =
                ArgumentsOf(Current.chunks, toolCallsMap[p].index)

\* fragments of two indices interleaved, one of them empty, the fragments of
\* index 0 carrying different ids: the text of index 0 is both its fragments
C28_Witness ==
  /\ pc = "toolExecute"
  /\ Len(toolCallsMap) = 2
  /\ Cardinality({ i \in DOMAIN Current.chunks : Current.chunks[i].type = "tool_call" }) = 3
  /\ \E i \in DOMAIN Current.chunks :
       Current.chunks[i].type = "tool_call" /\ Current.chunks[i].arguments = <<>>
  /\ Current.chunks[1].index = 0 /\ Current.chunks[2].index = 1
  /\ Current.chunks[3].index = 0 /\ Current.chunks[3].id # Current.chunks[1].id
  /\ toolCalls[1].arguments = <<"{", "}">>
  /\ toolCalls[2].arguments = <<>>

\* s is the beginning of t
IsPrefixOf(s, t) == Len(s) <= Len(t) /\ SubSeq(t, 1, Len(s)) = s

\* what each round of the tool loop sent, given what the rounds so far sent
SentByRounds(log, history) ==
  /\ log # <<>> => log[1].sent = options.messages
  /\ \A r \in 1..(Len(log) - 1) :
       LET before == log[r].sent
           after == log[r + 1].sent
       IN  /\ IsPrefixOf(before, after)
           /\ Len(after) > Len(before)
           /\ after[Len(before) + 1].role = "assistant"
           /\ \A k \in (Len(before) + 2)..Len(after) : after[k].role = "tool"
  /\ log # <<>> => IsPrefixOf(log[Len(log)].sent, history)

\* C29: in the tool loop the working conversation only grows at its end:
\* every step leaves the messages it had as the beginning of the messages it
\* has, and the messages sent to the backend in a round are those sent in
\* the round before followed by what that round appended, the assistant
\* message and the tool messages.
C29_HistoryAppendOnly ==
  [][ (IsChatStream /\ RequestsExecutable) =>
        /\ IsPrefixOf(messages, messages')
        /\ SentByRounds(attempts', messages')
        /\ (pc' = "toolStream") => attempts'[Len(attempts')].sent = messages' ]_vars

\* a second round was sent the first round's messages, the assistant
\* message and one tool message
C29_Witness ==
  /\ IsChatStream /\ RequestsExecutable
  /\ Len(attempts) = 2
  /\ Len(attempts[2].sent) = Len(attempts[1].sent) + 2
  /\ attempts[2].sent[Len(attempts[2].sent)].role = "tool"
  /\ attempts[2].sent[Len(attempts[2].sent) - 1].toolCalls # <<>>

\* the pair a streaming chat call with executable tools is to invoke: the
\* primary, or without one the first entry of the chain
DesignatedPair ==
  IF options.hasAdapter THEN Primary
  ELSE IF ClaimedChain # <<>> THEN ClaimedChain[1] ELSE NoEntry

OnUnregistered(i) == attempts[i].adapter \notin DOMAIN adapters

\* C31: in the promise-mode operations an adapter name that is not
\* registered is one more failed attempt: with a chain, an unregistered
\* primary does not give the caller the unknown-adapter error but starts the
\* walk of the chain, and an unregistered chain entry is recorded as the
\* failure of that entry and the walk goes on to the next entry.
C31_UnregisteredIsAttemptFailure ==
  IsPromiseCall =>
    /\ \A i \in DOMAIN attempts :
         OnUnregistered(i) =>
           /\ ~attempts[i].invoked
           /\ attempts[i].status = "failed"
           /\ attempts[i].error.kind = "AdapterNotFound"
           /\ attempts[i].error.message = attempts[i].adapter
    /\ (/\ options.hasAdapter /\ attempts # <<>> /\ OnUnregistered(1)
        /\ ClaimedChain # <<>>) =>
         /\ outcome.error.kind # "AdapterNotFound"
         /\ (pc = "done") =>
              /\ Len(attempts) >= 2
              /\ IsChainAttempt(2, 1)
    /\ \A i \in DOMAIN attempts :
         (OnUnregistered(i) /\ attempts[i].pos >= 1) =>
           LET k == attempts[i].pos
           IN  /\ k \in DOMAIN errors
               /\ errors[k] = [adapter |-> attempts[i].adapter,
                               model |-> attempts[i].model,
                               error |-> attempts[i].error]
               /\ IF k < Len(ClaimedChain)
                    THEN /\ outcome.status \in {"pending", "returned"}
                            \/ outcome.error.kind = "AllAdaptersFailed"
                         /\ (pc = "done") =>
                              /\ Len(attempts) > i
                              /\ attempts[i + 1].pos = k + 1
                    ELSE /\ pc = "done"
                         /\ outcome.error.kind = "AllAdaptersFailed"

\* an unregistered primary and an unregistered first chain entry, after
\* which the second entry of the chain answers
C31_Witness ==
  /\ IsPromiseCall /\ options.hasAdapter
  /\ Len(attempts) = 3
  /\ OnUnregistered(1) /\ OnUnregistered(2)
  /\ attempts[3].status = "ok"
  /\ outcome.status = "returned"
  /\ Len(errors) = 1

\* the messages appended since the last request to the backend was sent
AfterLastRequest ==
  SubSeq(messages, Len(attempts[Len(attempts)].sent) + 1, Len(messages))

\* the chunks delivered after the last chunk that came from a backend
AfterLastBackendChunk ==
  LET from == { i \in DOMAIN out : out[i].seq # 0 }
      last == IF from = {} THEN 0 ELSE CHOOSE i \in from : \A j \in from : j <= i
  IN  SubSeq(out, last + 1, Len(out))

\* C32: in the tool loop, when the round that reaches the maximum is
\* tool-triggering, its tool calls are executed all the same: the assistant
\* message and the tool messages are appended, the executed tools have run
\* and their synthetic chunks are delivered; no request follows, so no
\* backend is ever sent the messages of that round.
C32_LastRoundStillExecuted ==
  (/\ IsChatStream /\ RequestsExecutable
   /\ pc = "done" /\ outcome.status = "returned"
   /\ hasToolCalls /\ toolCalls # <<>>) =>
    LET block == AfterLastRequest
        answered == { p \in DOMAIN toolCalls : RequestedExecutable(toolCalls[p].name) }
        results == { j \in DOMAIN block :
                       block[j].role = "tool" /\ block[j].content.kind = "text" }
        chunks == AfterLastBackendChunk
    IN  /\ iteration = ClaimedMaximum
        /\ Len(attempts) = ClaimedMaximum
        /\ block # <<>>
        /\ block[1] = [role |-> "assistant", content |-> Null,
                       toolCalls |-> toolCalls, toolCallId |-> "", name |-> ""]
        /\ Len(block) = 1 + Cardinality(answered)
        /\ \A j \in 2..Len(block) : block[j].role = "tool"
        /\ \A j \in results :
             \E e \in DOMAIN executed :
               /\ executed[e].ok
               /\ executed[e].id = block[j].toolCallId
               /\ executed[e].name = block[j].name
        /\ Len(chunks) = Cardinality(results)
        /\ \A c \in DOMAIN chunks :
             \E j \in results : IsSyntheticFor(chunks[c], block[j].name)
        /\ \A i \in DOMAIN attempts : Len(attempts[i].sent) < Len(messages)

\* with a maximum of 2 the second round asks for a tool, which runs; the
\* call ends after its chunk
C32_Witness ==
  /\ IsChatStream /\ RequestsExecutable
  /\ options.maxIterations = [defined |-> TRUE, value |-> 2]
  /\ pc = "done" /\ outcome.status = "returned"
  /\ Len(attempts) = 2
  /\ hasToolCalls /\ toolCalls # <<>>
  /\ out # <<>> /\ out[Len(out)].seq = 0
  /\ messages[Len(messages)].role = "tool"
  /\ messages[Len(messages)].content.kind = "text"

\* C33: a streaming chat call that requests an executable tool with a
\* maxIterations of zero or less invokes no backend, executes no tool and
\* delivers no chunk, and once in the loop it ends normally at once: the
\* default of 5 stands in for an unset maximum only, not for 0.
C33_ZeroMaximumNoRound ==
  (/\ IsChatStream /\ RequestsExecutable
   /\ options.maxIterations.defined /\ options.maxIterations.value <= 0) =>
    /\ attempts = <<>>
    /\ executed = <<>>
    /\ out = <<>>
    /\ iteration = 0
    /\ messages \in { <<>>, options.messages }
    /\ pc \in {"start", "toolLoop", "done"}
    /\ (pc = "done" /\ messages = options.messages) => outcome.status = "returned"
    /\ (pc = "done" /\ outcome.status = "threw") =>
         /\ messages = <<>>
         /\ outcome.error.kind \in {"NoFallbacksSpecified", "AdapterNotFound"}

\* a call with maxIterations 0 and a registered primary is over
C33_Witness ==
  /\ IsChatStream /\ RequestsExecutable
  /\ options.maxIterations = [defined |-> TRUE, value |-> 0]
  /\ options.hasAdapter /\ options.adapter \in DOMAIN adapters
  /\ pc = "done" /\ outcome.status = "returned"
  /\ attempts = <<>> /\ out = <<>>

\* the positions in a stream of the tool_call chunks of one stream index
FragmentsOf(chunks, idx) ==
  { j \in DOMAIN chunks : chunks[j].type = "tool_call" /\ chunks[j].index = idx }

\* the id carried by the first fragment of a stream index
FirstId(chunks, idx) ==
  LET at == FragmentsOf(chunks, idx)
  IN  chunks[CHOOSE j \in at : \A k \in at : j <= k].id

\* the name carried by the last fragment of a stream index that carries one
LastName(chunks, idx) ==
  LET at == { j \in FragmentsOf(chunks, idx) : chunks[j].name # "" }
  IN  IF at = {} THEN "" ELSE chunks[CHOOSE j \in at : \A k \in at : k <= j].name

\* C34: in the tool loop the identifier of an accumulated call, of the call
\* finalized from it and of the tool message answering it is the identifier
\* the first fragment of its stream index carried, whatever identifiers the
\* later fragments of that index carry, an identifier that comes only in a
\* later fragment included; the function name is the one the latest fragment
\* with a name carried.
C34_IdOfFirstFragment ==
  (pc \in {"toolStream", "toolExecute", "toolLoop"} /\ attempts # <<>>) =>
    LET chunks == attempts[Len(attempts)].chunks
    IN  /\ \A p \in DOMAIN toolCallsMap :
             /\ toolCallsMap[p].id = FirstId(chunks, toolCallsMap[p].index)
             /\ toolCallsMap[p].name = LastName(chunks, toolCallsMap[p].index)
        /\ hasToolCalls =>
             \A p \in DOMAIN toolCalls :
               /\ toolCalls[p].id = FirstId(chunks, toolCallsMap[p].index)
               /\ toolCalls[p].name = LastName(chunks, toolCallsMap[p].index)
        /\ (pc \in {"toolExecute", "toolLoop"}) =>
             \A j \in DOMAIN AfterLastRequest :
               (AfterLastRequest[j].role = "tool") =>
                 \E p \in DOMAIN toolCallsMap :
                   /\ AfterLastRequest[j].toolCallId =
                        FirstId(chunks, toolCallsMap[p].index)
                   /\ AfterLastRequest[j].name =
                        LastName(chunks, toolCallsMap[p].index)

\* the id of a call comes in its second fragment only: the finalized call
\* and the tool message answering it carry the empty id of the first
C34_Witness ==
  /\ pc = "toolLoop" /\ attempts # <<>>
  /\ hasToolCalls /\ Len(toolCalls) = 1
  /\ toolCalls[1].id = ""
  /\ \E j \in DOMAIN attempts[Len(attempts)].chunks :
       /\ attempts[Len(attempts)].chunks[j].type = "tool_call"
       /\ attempts[Len(attempts)].chunks[j].id = "call_h"
  /\ messages[Len(messages)].role = "tool"
  /\ messages[Len(messages)].toolCallId = ""
  /\ messages[Len(messages)].name = "getGuitars"

\* the positions after the caller's messages that hold an assistant message
BlockStarts ==
  { i \in (Len(options.messages) + 1)..Len(messages) : messages[i].role = "assistant" }

\* the last position of the block that starts at position a
BlockEnd(a) ==
  LET later == { b \in BlockStarts : b > a }
  IN  IF later = {} THEN Len(messages)
      ELSE (CHOOSE b \in later : \A c \in later : b <= c) - 1

\* the tool messages after position a answer calls of the list of the
\* assistant message at a, each call at most once, in the order of the list
AnswersInOrder(a) ==
  LET n == BlockEnd(a) - a
      calls == messages[a].toolCalls
  IN  \E f \in [1..n -> DOMAIN calls] :
        /\ \A j, k \in 1..n : j < k => f[j] < f[k]
        /\ \A k \in 1..n :
             /\ messages[a + k].role = "tool"
             /\ messages[a + k].toolCalls = <<>>
             /\ messages[a + k].toolCallId = calls[f[k]].id
             /\ messages[a + k].name = calls[f[k]].name

\* C35: at every point of the tool loop the working history is the caller's
\* messages followed by round blocks: an assistant message with null content
\* and a non-empty list of tool calls, then tool messages, each carrying the
\* id and name of a call of that list, at most one per call and in the
\* order of the list.
C35_HistoryShape ==
  (IsChatStream /\ RequestsExecutable /\ messages # <<>>) =>
    LET n == Len(options.messages)
    IN  /\ Len(messages) >= n
        /\ SubSeq(messages, 1, n) = options.messages
        /\ Len(messages) > n => (n + 1) \in BlockStarts
        /\ \A a \in BlockStarts :
             /\ messages[a].content = Null
             /\ messages[a].toolCalls # <<>>
             /\ AnswersInOrder(a)

\* two rounds: a block of two calls, both answered, and a block whose call
\* is not answered
C35_Witness ==
  /\ IsChatStream /\ RequestsExecutable
  /\ pc = "done"
  /\ Cardinality(BlockStarts) = 2
  /\ \E a \in BlockStarts :
       /\ Len(messages[a].toolCalls) = 2
       /\ BlockEnd(a) = a + 2
  /\ \E a \in BlockStarts : BlockEnd(a) = a

====
